---- MODULE Spec2Model ----
(***************************************************************************)
(* A model of game2anki's audio recorder (src/src/audio/mod.rs): the       *)
(* AudioRecorder state shared between the hotkey task, the stop tasks it   *)
(* spawns and the capture threads, and the signal functions normalize_audio *)
(* and trim_silence.  Functions that share no state with the recorder are  *)
(* checked in specifications of their own: generate_filename (SpecFile),   *)
(* encode (src/src/audio/encode.rs, SpecEncode), the global hotkey        *)
(* listener (src/src/hotkey_manager.rs, SpecKeys), get_latest_note_id      *)
(* (src/src/anki.rs, SpecIds), the recorder's two mutexes (SpecLocks) and  *)
(* the bytes of capture_loop (SpecCapture).  SpecLive adds the scheduling  *)
(* of the capture threads to the recorder, for its termination.            *)
(* The rest of the program has specifications of its own as well: the two  *)
(* hotkey channels of src/src/main.rs (SpecChan), HotKeyManager's init and  *)
(* register_hotkey (SpecMgr), the BorderOverlay of src/src/utils/border.rs  *)
(* (SpecOverlay) and the wait of capture_active_window                      *)
(* (src/src/screenshot/capture.rs, SpecShot, and SpecShotLive with the      *)
(* caller's scheduling).                                                    *)
(*                                                                         *)
(* An f32 sample is modelled as an exact rational [n, d] in lowest terms,   *)
(* with d > 0, so that 0.95 / max_amplitude is computed and not assumed;   *)
(* f32 rounding is not modelled.                                           *)
(***************************************************************************)
EXTENDS Integers, Sequences, FiniteSets, TLC

\* ------------------------------------------------------------------ bounds
MaxTriggers == 3
MaxBuf == 2
MaxLen == 3
MaxTitle == 2
MaxKeyEvents == 5
MaxIds == 3
MaxBytes == 8
MaxSends == 3
MaxCalls == 4
MaxQueue == 3
MaxShots == 2

\* ------------------------------------------------------- program constants
\* channels: 2  (AudioRecorder::new)
Channels == 2
\* 4 bytes per f32 sample (capture_loop)
BytesPerSample == 4

\* mpsc::channel(1)  (setup_screenshot_hotkey, setup_audio_record_hotkey)
ChanCapacity == 1

\* Duration::from_secs(3)  (capture_active_window)
WaitSeconds == 3

\* ------------------------------------------------------------ f32 as [n, d]
AbsI(x) == IF x < 0 THEN 0 - x ELSE x

RECURSIVE GCD(_, _)
GCD(a, b) == IF b = 0 THEN a ELSE GCD(b, a % b)

\* the number n / d (d > 0), in lowest terms: equal numbers are equal records
Rat(n, d) ==
    LET g == GCD(AbsI(n), d)
    IN  [n |-> n \div g, d |-> d \div g]

\* f32::abs
RatAbs(a) == Rat(AbsI(a.n), a.d)

\* a > b
RatGt(a, b) == a.n * b.d > b.n * a.d

\* a < b
RatLt(a, b) == a.n * b.d < b.n * a.d

\* a == b as numbers
RatEq(a, b) == a.n * b.d = b.n * a.d

\* f32::max
RatMax(a, b) == IF RatGt(b, a) THEN b ELSE a

\* a * b
RatMul(a, b) == Rat(a.n * b.n, a.d * b.d)

\* a / b, for b > 0
RatDiv(a, b) == Rat(a.n * b.d, a.d * b.n)

\* the literals of the source
Zero == Rat(0, 1)
One == Rat(1, 1)
Headroom == Rat(95, 100)
SilenceThreshold == Rat(1, 100)

\* ------------------------------------------------------------ signal functions

\* samples.iter().map(|&x| x.abs()).fold(0.0f32, f32::max)
MaxAmplitude(samples) ==
    LET F[i \in 0..Len(samples)] ==
            IF i = 0 THEN Zero ELSE RatMax(F[i - 1], RatAbs(samples[i]))
    IN  F[Len(samples)]

\* a variant of ShouldScale that forgets the upper limit
ShouldScaleAnyPositive(max_amplitude) == RatGt(max_amplitude, Zero)

\* if max_amplitude > 0.0 && max_amplitude < 1.0
ShouldScale(max_amplitude) ==
    RatGt(max_amplitude, Zero) /\ RatLt(max_amplitude, One)

\* a variant of NormalizeAudio that scales by 0.95 without dividing by the peak
NormalizeAudioFixedGain(samples) ==
    IF ShouldScale(MaxAmplitude(samples))
    THEN [i \in 1..Len(samples) |-> RatMul(samples[i], Headroom)]
    ELSE samples

\* fn normalize_audio(samples: &mut [f32]): the samples after the call
NormalizeAudio(samples) ==
    LET max_amplitude == MaxAmplitude(samples)
    IN  IF ShouldScale(max_amplitude)
        THEN LET scale_factor == RatDiv(Headroom, max_amplitude)
             IN  [i \in 1..Len(samples) |-> RatMul(samples[i], scale_factor)]
        ELSE samples

\* the 1-based indices of the samples with |x| > threshold
Loud(samples, threshold) ==
    {i \in 1..Len(samples) : RatGt(RatAbs(samples[i]), threshold)}

Min(S) == CHOOSE x \in S : \A y \in S : x <= y
Max(S) == CHOOSE x \in S : \A y \in S : x >= y

\* samples.iter().position(..).unwrap_or(0): a 0-based index
TrimStart(samples, threshold) ==
    IF Loud(samples, threshold) = {} THEN 0
    ELSE Min(Loud(samples, threshold)) - 1

\* samples.iter().rposition(..).map(|x| x + 1).unwrap_or(samples.len())
TrimEnd(samples, threshold) ==
    IF Loud(samples, threshold) = {} THEN Len(samples)
    ELSE (Max(Loud(samples, threshold)) - 1) + 1

\* fn trim_silence(samples, threshold) -> &samples[start..end]
TrimSilence(samples, threshold) ==
    SubSeq(samples, TrimStart(samples, threshold) + 1, TrimEnd(samples, threshold))

\* ------------------------------------------------------------ NoteStore

NoteIds == {1, 2}

\* the "result" arrays findNotes may answer with
FindNotesResults == {<<>>, <<1, 2>>}

\* a variant of GetLatestNoteId without the is_empty check
GetLatestNoteIdUnchecked(results) ==
    [ok |-> TRUE,
     id |-> IF results = <<>> THEN 1
            ELSE CHOOSE x \in {results[i] : i \in 1..Len(results)} :
                    \A j \in 1..Len(results) : x >= results[j]]

\* v.as_u64() is Some: a JSON value that is not a u64 is modelled as -1
IsU64(v) == v >= 0

\* the sequence without its i-th element
RemoveAt(seq, i) == SubSeq(seq, 1, i - 1) \o SubSeq(seq, i + 1, Len(seq))

\* note_ids.sort_by(|a, b| b.cmp(a))
RECURSIVE SortDesc(_)
SortDesc(seq) ==
    IF seq = <<>> THEN <<>>
    ELSE LET m == Max({seq[i] : i \in 1..Len(seq)})
             at == Min({i \in 1..Len(seq) : seq[i] = m})
         IN  <<m>> \o SortDesc(RemoveAt(seq, at))

\* a variant of GetLatestNoteId that takes the first id without sorting
GetLatestNoteIdUnsorted(results) ==
    IF results = <<>>
    THEN [ok |-> FALSE, id |-> 0, error |-> "NoNotesFound"]
    ELSE LET note_ids == SelectSeq(results, IsU64)
         IN  IF note_ids = <<>>
             THEN [ok |-> FALSE, id |-> 0, error |-> "NoLatestNoteId"]
             ELSE [ok |-> TRUE, id |-> note_ids[1], error |-> "none"]

\* AnkiClient::get_latest_note_id, from the parsed result array on:
\* empty -> Err; else keep the u64 values, sort descending, take the first
GetLatestNoteId(results) ==
    IF results = <<>>
    THEN [ok |-> FALSE, id |-> 0, error |-> "NoNotesFound"]
    ELSE LET note_ids == SortDesc(SelectSeq(results, IsU64))
         IN  IF note_ids = <<>>
             THEN [ok |-> FALSE, id |-> 0, error |-> "NoLatestNoteId"]
             ELSE [ok |-> TRUE, id |-> note_ids[1], error |-> "none"]

\* a variant of SoundRef without the [sound: ] wrapping
SoundRefBare(filename) == <<filename>>

\* format!("[sound:{}]", filename)
SoundRef(filename) == <<"[sound:", filename, "]">>

\* ------------------------------------------------------------ state

VARIABLES
    cfg_format,     \* cfg.format: "Opus" or "Mp3"
    is_recording,   \* AudioRecorder.is_recording
    audio_buffer,   \* AudioRecorder.audio_buffer
    threads,        \* the AudioCapture threads spawned so far
    tasks,          \* the stop_recording_and_save tasks spawned so far
    hk,             \* where the hotkey task is inside start_recording
    session,        \* number of start_recording calls that set the flag
    start_calls,    \* number of start_recording calls
    returned,       \* the call that returned last, and what it returned
    snapshotted,    \* sessions whose buffer snapshot has been cloned
    media_files,    \* file names written into the media directory
    note_fields,    \* the audio field of each note
    sig_pc,         \* signal check: which function has been applied
    sig_in,         \* signal check: the input samples
    sig_thr,        \* signal check: the threshold
    sig_out,        \* signal check: the output samples
    border_overlays,\* number of BorderOverlay values alive
    file_pc,        \* file name check: which function has been applied
    file_title,     \* file name check: the foreground window's title
    file_ext,       \* file name check: the AudioFormat
    file_name,      \* file name check: the function's result
    enc_pc,         \* encode check: whether encode has been called
    enc_format,     \* encode check: format
    enc_len,        \* encode check: samples.len()
    enc_channels,   \* encode check: channels
    enc_work,       \* encode check: the library calls made, in order
    enc_out,        \* encode check: the packets / byte chunks produced
    enc_frames,     \* encode check: the frames handed to the codec, in order
    enc_result,     \* encode check: what encode returned
    key_down,       \* hotkey check: the keys physically held
    pressed,        \* hotkey check: the listener's pressed set
    combo_presses,  \* hotkey check: physical presses of each combination
    cb_calls,       \* hotkey check: invocations of each combination's callback
    key_events,     \* hotkey check: events delivered to the listener
    ids_pc,         \* note lookup check: whether the function has been applied
    ids_in,         \* note lookup check: the "result" array of findNotes
    ids_out,        \* note lookup check: what get_latest_note_id returned
    lock_flag,      \* lock check: who holds the is_recording mutex
    lock_buf,       \* lock check: who holds the audio_buffer mutex
    lock_pc,        \* lock check: where each thread of control is
    lock_val,       \* lock check: the flag, the buffer's length, the queues
    cap_pc,         \* byte check: where the capture loop is
    cap_queue,      \* byte check: sample_queue, the bytes not yet unpacked
    cap_stream,     \* byte check: all bytes read from the device so far
    cap_buffer,     \* byte check: the samples pushed, as f32 bit patterns
    chan_q,         \* trigger channels: the triggers queued in each channel
    chan_listener,  \* trigger channels: what the listener thread is doing
    chan_rx,        \* trigger channels: what each receiving task is doing
    chan_log,       \* trigger channels: callbacks, sends, drops, handlings
    mgr_started,    \* hotkey manager: LISTENER_STARTED
    mgr_listeners,  \* hotkey manager: listener threads spawned
    mgr_registry,   \* hotkey manager: HOTKEY_REGISTRY
    mgr_pc,         \* hotkey manager: where each calling thread is
    mgr_calls,      \* hotkey manager: calls begun so far
    ovl_handle,     \* overlay: self.thread_handle
    ovl_owner,      \* overlay: where the owner of the BorderOverlay is
    ovl_queue,      \* overlay: the window thread's message queue
    ovl_thread,     \* overlay: where the window thread is
    ovl_log,        \* overlay: PostMessageW and join calls made
    shot_image,     \* screenshot: the Option behind the mutex
    shot_caller,    \* screenshot: where capture_active_window is
    shot_handler,   \* screenshot: where the frame handler is
    shot_cvar,      \* screenshot: the condition variable's state
    shot_result,    \* screenshot: what capture_active_window returned
    shot_clock,     \* screenshot: seconds spent in the wait
    shot_calls      \* screenshot: calls of capture_active_window so far

recVars == <<cfg_format, is_recording, audio_buffer, threads, tasks, hk,
             session, start_calls, returned, snapshotted, media_files,
             note_fields, border_overlays>>
sigVars == <<sig_pc, sig_in, sig_thr, sig_out>>
fileVars == <<file_pc, file_title, file_ext, file_name>>
encVars == <<enc_pc, enc_format, enc_len, enc_channels, enc_work, enc_out,
             enc_frames, enc_result>>
keyVars == <<key_down, pressed, combo_presses, cb_calls, key_events>>
\* the variables of the checks of single functions
idsVars == <<ids_pc, ids_in, ids_out>>
lockVars == <<lock_flag, lock_buf, lock_pc, lock_val>>
capVars == <<cap_pc, cap_queue, cap_stream, cap_buffer>>
chanVars == <<chan_q, chan_listener, chan_rx, chan_log>>
mgrVars == <<mgr_started, mgr_listeners, mgr_registry, mgr_pc, mgr_calls>>
ovlVars == <<ovl_handle, ovl_owner, ovl_queue, ovl_thread, ovl_log>>
shotVars == <<shot_image, shot_caller, shot_handler, shot_cvar, shot_result,
              shot_clock, shot_calls>>
\* the variables of the checks of the collaborators
lateVars == <<chanVars, mgrVars, ovlVars, shotVars>>
sideVars == <<sigVars, fileVars, encVars, keyVars, idsVars, lockVars, capVars,
              lateVars>>
vars == <<recVars, sideVars>>

\* the samples the device may deliver
SampleVals == {Rat(0, 1), Rat(1, 2)}

\* the byte counts one read_from_device_to_deque may add to the queue
ReadSizes == {0, 4}

\* calls made so far: every call of on_hotkey_clicked either calls
\* start_recording or spawns a stop task
Triggers == start_calls + Len(tasks)

Threads == 1..Len(threads)
Tasks == 1..Len(tasks)

\* AudioRecorder::new with the default format, and an empty media directory
RecInit ==
    /\ cfg_format = "Opus"
    /\ is_recording = FALSE
    /\ audio_buffer = <<>>
    /\ threads = <<>>
    /\ tasks = <<>>
    /\ hk = "idle"
    /\ session = 0
    /\ start_calls = 0
    /\ returned = [call |-> "none", id |-> 0, result |-> "none", ops |-> <<>>,
                   note_id |-> 0]
    /\ snapshotted = {}
    /\ media_files = {}
    /\ note_fields = [id \in NoteIds |-> <<>>]
    /\ border_overlays = 0

SigIdle ==
    /\ sig_pc = "off"
    /\ sig_in = <<>>
    /\ sig_thr = Zero
    /\ sig_out = <<>>

FileIdle ==
    /\ file_pc = "off"
    /\ file_title = <<>>
    /\ file_ext = "Opus"
    /\ file_name = <<>>

EncIdle ==
    /\ enc_pc = "off"
    /\ enc_format = "Opus"
    /\ enc_len = 0
    /\ enc_channels = 2
    /\ enc_work = <<>>
    /\ enc_out = <<>>
    /\ enc_frames = <<>>
    /\ enc_result = "none"

\* the keys the model presses: the two default hotkeys and one other key
Keys == {"Tab", "CapsLock", "KeyA"}

\* HOTKEY_REGISTRY after main's two register_hotkey calls with the default
\* HotKey config: one callback per combination
ScreenShotCombo == {"CapsLock"}
AudioRecordCombo == {"Tab"}
Registry == {ScreenShotCombo, AudioRecordCombo}

KeyIdle ==
    /\ key_down = {}
    /\ pressed = {}
    /\ combo_presses = [combo \in Registry |-> 0]
    /\ cb_calls = [combo \in Registry |-> 0]
    /\ key_events = 0

\* what get_latest_note_id has returned before it is called
NoId == [ok |-> FALSE, id |-> 0, error |-> "none"]

IdsIdle ==
    /\ ids_pc = "off"
    /\ ids_in = <<>>
    /\ ids_out = NoId

\* the threads of control that take the recorder's locks: the task that
\* runs on_hotkey_clicked, the stop_recording_and_save tasks it spawns and
\* the capture threads; one trigger creates at most one of them
LockHotkey == <<"hotkey", 0>>
LockStops == {<<"stop", i>> : i \in 1..MaxTriggers}
LockCaptures == {<<"capture", i>> : i \in 1..MaxTriggers}
LockProcs == {LockHotkey} \cup LockStops \cup LockCaptures

\* the holder of a Mutex that is not locked
NoHolder == <<"none", 0>>

\* flag: *is_recording, buf: audio_buffer.len(), queued: the complete
\* 4-byte groups in each capture thread's sample_queue, triggers: calls of
\* on_hotkey_clicked so far
LockIdle ==
    /\ lock_flag = NoHolder
    /\ lock_buf = NoHolder
    /\ lock_pc = [p \in LockProcs |-> "off"]
    /\ lock_val = [flag |-> FALSE, buf |-> 0, triggers |-> 0,
                   queued |-> [c \in LockCaptures |-> 0]]

CapIdle ==
    /\ cap_pc = "off"
    /\ cap_queue = <<>>
    /\ cap_stream = <<>>
    /\ cap_buffer = <<>>

\* no trigger channel, the hotkey manager not initialised, no overlay and no
\* screenshot call
ChanIdle ==
    /\ chan_q = <<>>
    /\ chan_listener = "off"
    /\ chan_rx = <<>>
    /\ chan_log = <<>>

MgrIdle ==
    /\ mgr_started = FALSE
    /\ mgr_listeners = 0
    /\ mgr_registry = <<>>
    /\ mgr_pc = <<>>
    /\ mgr_calls = 0

OvlIdle ==
    /\ ovl_handle = "None"
    /\ ovl_owner = "off"
    /\ ovl_queue = <<>>
    /\ ovl_thread = "off"
    /\ ovl_log = <<>>

ShotIdle ==
    /\ shot_image = "None"
    /\ shot_caller = "off"
    /\ shot_handler = "off"
    /\ shot_cvar = "idle"
    /\ shot_result = "none"
    /\ shot_clock = 0
    /\ shot_calls = 0

LateIdle == ChanIdle /\ MgrIdle /\ OvlIdle /\ ShotIdle

Init == RecInit /\ SigIdle /\ FileIdle /\ EncIdle /\ KeyIdle
            /\ IdsIdle /\ LockIdle /\ CapIdle /\ LateIdle

\* ------------------------------------------------------------ start_recording

\* what a start_recording call (the id-th) returns
StartReturn(id, result) ==
    [call |-> "start_recording", id |-> id, result |-> result, ops |-> <<>>,
     note_id |-> 0]

\* what a stop_recording_and_save task (the k-th) returns
StopReturn(k, result, ops, note_id) ==
    [call |-> "stop_recording_and_save", id |-> k, result |-> result, ops |-> ops,
     note_id |-> note_id]

\* a variant of StartRecordingEnter that sets the flag without looking at it
StartRecordingEnterUnguarded ==
    /\ start_calls' = start_calls + 1
    /\ is_recording' = TRUE
    /\ session' = session + 1
    /\ hk' = "clear"
    /\ UNCHANGED <<returned, audio_buffer, threads>>

\* lines 128-134: under the flag's lock, return Err if already recording,
\* else set the flag
StartRecordingEnter ==
    /\ start_calls' = start_calls + 1
    /\ IF is_recording
       THEN /\ returned' = StartReturn(start_calls + 1, "AlreadyRecording")
            /\ UNCHANGED <<is_recording, session, hk>>
       ELSE /\ is_recording' = TRUE
            /\ session' = session + 1
            /\ hk' = "clear"
            /\ UNCHANGED returned
    /\ UNCHANGED <<audio_buffer, threads>>

\* lines 137-140: buffer.clear()
StartClear ==
    /\ hk = "clear"
    /\ audio_buffer' = <<>>
    /\ hk' = "spawn"
    /\ UNCHANGED <<cfg_format, is_recording, threads, tasks, session,
                   start_calls, returned, snapshotted, media_files, note_fields>>
    /\ UNCHANGED <<border_overlays, sideVars>>

\* lines 142-158: thread::Builder::spawn(..)?, which may fail
StartSpawn ==
    /\ hk = "spawn"
    /\ hk' = "idle"
    /\ \/ /\ threads' = Append(threads, [pc |-> "setup", sample_queue |-> 0,
                                         session |-> session])
          /\ returned' = StartReturn(start_calls, "Ok")
       \/ /\ returned' = StartReturn(start_calls, "SpawnError")
          /\ UNCHANGED threads
    /\ UNCHANGED <<cfg_format, is_recording, audio_buffer, tasks, session,
                   start_calls, snapshotted, media_files, note_fields>>
    /\ UNCHANGED <<border_overlays, sideVars>>

\* a direct call of the public start_recording
StartRecording ==
    /\ hk = "idle"
    /\ Triggers < MaxTriggers
    /\ StartRecordingEnter
    /\ UNCHANGED <<cfg_format, tasks, snapshotted, media_files, note_fields>>
    /\ UNCHANGED <<border_overlays, sideVars>>

\* a stop_recording_and_save task: its position, the session it was spawned in
\* and its locals (the trimmed samples, whether encode returned Ok for them,
\* and the file name, alive until it returns)
NewTask ==
    [pc |-> "stop", session |-> session, trimmed |-> <<>>, encoded |-> FALSE,
     filename |-> <<>>]

\* on_hotkey_clicked: read the flag; stop (in a spawned task) or start
OnHotkeyClicked ==
    /\ hk = "idle"
    /\ Triggers < MaxTriggers
    /\ IF is_recording
       THEN /\ tasks' = Append(tasks, NewTask)
            /\ UNCHANGED <<is_recording, audio_buffer, threads, hk, session,
                           start_calls, returned>>
       ELSE /\ StartRecordingEnter
            /\ UNCHANGED tasks
    /\ UNCHANGED <<cfg_format, snapshotted, media_files, note_fields>>
    /\ UNCHANGED <<border_overlays, sideVars>>

\* ------------------------------------------------------------ capture_loop

\* bytes queued in all capture threads
QueuedBytes ==
    LET F[i \in 0..Len(threads)] ==
            IF i = 0 THEN 0 ELSE F[i - 1] + threads[i].sample_queue
    IN  F[Len(threads)]

CaptureUnchanged ==
    /\ UNCHANGED <<cfg_format, is_recording, tasks, hk, session,
                   start_calls, returned, snapshotted, media_files, note_fields>>
    /\ UNCHANGED <<border_overlays, sideVars>>

\* a variant of CaptureSetup in which a failure ends the session: the flag
\* is cleared
CaptureSetupEndsSession(t) ==
    /\ threads[t].pc = "setup"
    /\ \E ok \in BOOLEAN :
          /\ threads' = [threads EXCEPT ![t].pc = IF ok THEN "check" ELSE "failed"]
          /\ is_recording' = IF ok THEN is_recording ELSE FALSE
    /\ UNCHANGED <<cfg_format, audio_buffer, tasks, hk, session, start_calls,
                   returned, snapshotted, media_files, note_fields>>
    /\ UNCHANGED <<border_overlays, sideVars>>

\* lines 58-87: open the device, negotiate the format, start the stream; any
\* failure ends the thread (the error is logged by the spawning closure)
CaptureSetup(t) ==
    /\ threads[t].pc = "setup"
    /\ \E ok \in BOOLEAN :
          threads' = [threads EXCEPT ![t].pc = IF ok THEN "check" ELSE "failed"]
    /\ UNCHANGED audio_buffer
    /\ CaptureUnchanged

\* a variant of CaptureCheck that does not look at the flag
CaptureCheckBlind(t) ==
    /\ threads[t].pc = "check"
    /\ \/ \E k \in ReadSizes :
             /\ BytesPerSample * Len(audio_buffer) + QueuedBytes + k
                    <= BytesPerSample * MaxBuf
             /\ threads' = [threads EXCEPT ![t].pc = "unpack",
                                           ![t].sample_queue = @ + k]
       \/ threads' = [threads EXCEPT ![t].pc = "failed", ![t].sample_queue = 0]
    /\ UNCHANGED audio_buffer
    /\ CaptureUnchanged

\* lines 90-99 and 120-122: read the flag under its lock; when it is false
\* leave the loop and stop the stream; else read_from_device_to_deque(..)?,
\* which adds the bytes the device has to the thread's queue, or fails
CaptureCheck(t) ==
    /\ threads[t].pc = "check"
    /\ IF ~is_recording
       THEN threads' = [threads EXCEPT ![t].pc = "done"]
       ELSE \/ \E k \in ReadSizes :
                  /\ BytesPerSample * Len(audio_buffer) + QueuedBytes + k
                         <= BytesPerSample * MaxBuf
                  /\ threads' = [threads EXCEPT ![t].pc = "unpack",
                                                ![t].sample_queue = @ + k]
            \/ threads' = [threads EXCEPT ![t].pc = "failed", ![t].sample_queue = 0]
    /\ UNCHANGED audio_buffer
    /\ CaptureUnchanged

\* lines 102-112, one turn of the while loop: pop 4 bytes, lock the buffer,
\* push the sample they decode to
CapturePush(t) ==
    /\ threads[t].pc = "unpack"
    /\ threads[t].sample_queue >= BytesPerSample
    /\ \E sample \in SampleVals :
          audio_buffer' = Append(audio_buffer, sample)
    /\ threads' = [threads EXCEPT ![t].sample_queue = @ - BytesPerSample]
    /\ CaptureUnchanged

\* lines 114-117: wait_for_event(100) returns, signalled or timed out
CaptureWait(t) ==
    /\ threads[t].pc = "unpack"
    /\ threads[t].sample_queue < BytesPerSample
    /\ threads' = [threads EXCEPT ![t].pc = "check"]
    /\ UNCHANGED audio_buffer
    /\ CaptureUnchanged

\* ------------------------------------------------------------ stop_recording_and_save

IllegalChars == {"/", "\\", "?", "%", "*", ":", "|", "\"", "<", ">", "."}

\* the foreground window's title while the model runs
WindowTitle == <<"a", ".", "b">>

\* window_name.chars().map(|c| if illegal { '_' } else { c })
SafeWindowName(window_name) ==
    [i \in 1..Len(window_name) |->
        IF window_name[i] \in IllegalChars THEN "_" ELSE window_name[i]]

\* enum AudioFormat, by its variants
Formats == {"Opus", "Mp3"}

\* #[derive(Debug)] on AudioFormat: {:?} writes the variant's name
DebugFmt(format) ==
    CASE format = "Opus" -> "Opus"
      [] format = "Mp3" -> "Mp3"

\* impl fmt::Display for AudioFormat: {} writes the lowercase tag
DisplayFmt(format) ==
    CASE format = "Opus" -> "opus"
      [] format = "Mp3" -> "mp3"

\* a variant of GenerateFilename that leaves the title as it is
GenerateFilenameRawTitle(prefix, window_name, timestamp, ext) ==
    <<prefix, "_", window_name, "_", timestamp, ".", DebugFmt(ext)>>

\* format!("{}_{}_{}.{:?}", prefix, safe_window_name, timestamp, ext)
GenerateFilename(prefix, window_name, timestamp, ext) ==
    <<prefix, "_", SafeWindowName(window_name), "_", timestamp, ".", DebugFmt(ext)>>

FieldName == "SentenceAudio"

\* SystemTime::now() in seconds since the epoch, while the model runs
UnixTime == 1700000000

\* the task's record once it has returned: its locals are gone
Done(task) ==
    [task EXCEPT !.pc = "done", !.trimmed = <<>>, !.encoded = FALSE,
                 !.filename = <<>>]

TaskUnchanged ==
    /\ UNCHANGED <<cfg_format, threads, hk, session, start_calls>>
    /\ UNCHANGED <<border_overlays, sideVars>>

\* lines 164-167: *recording = false
StopSetFlag(k) ==
    /\ tasks[k].pc = "stop"
    /\ is_recording' = FALSE
    /\ tasks' = [tasks EXCEPT ![k].pc = "sleep"]
    /\ UNCHANGED <<audio_buffer, returned, snapshotted, media_files, note_fields>>
    /\ TaskUnchanged

\* a variant of Process that goes on when encode returns Err
ProcessEncodeIgnored(audio_data, encode_ok) ==
    LET trimmed == TrimSilence(NormalizeAudio(audio_data), SilenceThreshold)
    IN  IF trimmed = <<>>
        THEN [result |-> "SilentRecording", trimmed |-> <<>>]
        ELSE [result |-> "Ok", trimmed |-> trimmed]

\* lines 182-197, on a non-empty snapshot: normalize, trim, Err if nothing is
\* left, encode (encode_ok: whether the encoder succeeds)
Process(audio_data, encode_ok) ==
    LET normalized_data == NormalizeAudio(audio_data)
        trimmed == TrimSilence(normalized_data, SilenceThreshold)
    IN  IF trimmed = <<>>
        THEN [result |-> "SilentRecording", trimmed |-> <<>>]
        ELSE IF ~encode_ok
        THEN [result |-> "EncodeError", trimmed |-> <<>>]
        ELSE [result |-> "Ok", trimmed |-> trimmed]

\* a variant of CloneAndProcess without the is_empty check
CloneAndProcessUnchecked(audio_data, encode_ok) == Process(audio_data, encode_ok)

\* lines 173-200, from the buffer's clone on: Err if it is empty; else process
\* it and generate the file name
CloneAndProcess(audio_data, encode_ok) ==
    IF audio_data = <<>>
    THEN [result |-> "NoAudioCaptured", trimmed |-> <<>>]
    ELSE Process(audio_data, encode_ok)

\* lines 170-200: the sleep ends; clone the buffer and process the clone, up
\* to the first request to the note store
StopClone(k) ==
    /\ tasks[k].pc = "sleep"
    /\ snapshotted' = snapshotted \cup {tasks[k].session}
    /\ \E encode_ok \in BOOLEAN :
          LET r == CloneAndProcess(audio_buffer, encode_ok)
          IN  IF r.result = "Ok"
              THEN /\ tasks' = [tasks EXCEPT
                          ![k].pc = "save",
                          ![k].trimmed = r.trimmed,
                          ![k].encoded = encode_ok,
                          ![k].filename = GenerateFilename(FieldName, WindowTitle,
                                                           UnixTime, cfg_format)]
                   /\ UNCHANGED returned
              ELSE /\ tasks' = [tasks EXCEPT ![k] = Done(tasks[k])]
                   /\ returned' = StopReturn(k, r.result, <<>>, 0)
    /\ UNCHANGED <<is_recording, audio_buffer, media_files, note_fields>>
    /\ TaskUnchanged

\* what the findNotes request comes back with: no answer, or a result array
FindNotesAnswers ==
    {[net_ok |-> FALSE, results |-> <<>>]}
        \cup {[net_ok |-> TRUE, results |-> r] : r \in FindNotesResults}

NoAnswer == [net_ok |-> FALSE, results |-> <<>>]

\* what the note store and the file system answer during one save_to_anki; a
\* request that is not reached has no answer to choose (it is fixed here)
SaveAnswers ==
    {e \in [media_ok : BOOLEAN, write_ok : BOOLEAN,
            notes : FindNotesAnswers, update_ok : BOOLEAN] :
        /\ ~e.media_ok => ~e.write_ok
        /\ ~e.write_ok => e.notes = NoAnswer
        /\ (~e.notes.net_ok \/ e.notes.results = <<>>) => ~e.update_ok}

Op(op, ok) == [op |-> op, ok |-> ok]

\* get_media_dir().await? (line 210)
MediaDirStep(env) ==
    IF env.media_ok THEN [go |-> TRUE, result |-> "Ok"]
    ELSE [go |-> FALSE, result |-> "MediaDirError"]

\* a variant of WriteStep that drops the write's result
WriteStepIgnored(env) == [go |-> TRUE, result |-> "Ok"]

\* fs::write(&file_path, _data)? (line 212)
WriteStep(env) ==
    IF env.write_ok THEN [go |-> TRUE, result |-> "Ok"]
    ELSE [go |-> FALSE, result |-> "WriteError"]

\* get_latest_note_id().await? (line 216)
NoteIdStep(env) ==
    IF ~env.notes.net_ok
    THEN [go |-> FALSE, result |-> "NoteLookupError", id |-> 0]
    ELSE IF ~GetLatestNoteId(env.notes.results).ok
    THEN [go |-> FALSE, result |-> "NoNotesFound", id |-> 0]
    ELSE [go |-> TRUE, result |-> "Ok", id |-> GetLatestNoteId(env.notes.results).id]

\* a variant of UpdateStep that drops the request's result
UpdateStepIgnored(env) == [go |-> TRUE, result |-> "Ok"]

\* update_note_field(..).await? (lines 217-223)
UpdateStep(env) ==
    IF env.update_ok THEN [go |-> TRUE, result |-> "Ok"]
    ELSE [go |-> FALSE, result |-> "UpdateError"]

\* whether the findNotes request came back with a note
NotesFound(env) == env.notes.net_ok /\ env.notes.results # <<>>

\* fn save_to_anki: the requests made, in order, with what each was answered;
\* the file written, the note updated, and what the call returns
SaveToAnki(env) ==
    LET m == MediaDirStep(env)
        w == WriteStep(env)
        n == NoteIdStep(env)
        u == UpdateStep(env)
        media == Op("get_media_dir", env.media_ok)
        write == Op("write", env.write_ok)
        find == Op("get_latest_note_id", NotesFound(env))
        update == Op("update_note_field", env.update_ok)
    IN  IF ~m.go
        THEN [result |-> m.result, wrote |-> FALSE, note_id |-> 0, updated |-> FALSE,
              ops |-> <<media>>]
        ELSE IF ~w.go
        THEN [result |-> w.result, wrote |-> FALSE, note_id |-> 0, updated |-> FALSE,
              ops |-> <<media, write>>]
        ELSE IF ~n.go
        THEN [result |-> n.result, wrote |-> env.write_ok, note_id |-> 0,
              updated |-> FALSE, ops |-> <<media, write, find>>]
        ELSE [result |-> u.result, wrote |-> env.write_ok, note_id |-> n.id,
              updated |-> env.update_ok, ops |-> <<media, write, find, update>>]

\* lines 202-204: self.save_to_anki(_data, &filename).await?  The requests of
\* one call read and write nothing the recorder shares (flag, buffer), so they
\* are taken in one step
Save(k) ==
    /\ tasks[k].pc = "save"
    /\ \E env \in SaveAnswers :
          LET r == SaveToAnki(env)
          IN  /\ tasks' = [tasks EXCEPT ![k] = Done(tasks[k])]
              /\ returned' = StopReturn(k, r.result, r.ops, r.note_id)
              /\ media_files' = IF r.wrote THEN media_files \cup {tasks[k].filename}
                                ELSE media_files
              /\ note_fields' = IF r.updated
                                THEN [note_fields EXCEPT
                                         ![r.note_id] = SoundRef(tasks[k].filename)]
                                ELSE note_fields
    /\ UNCHANGED <<is_recording, audio_buffer, snapshotted>>
    /\ TaskUnchanged

\* ------------------------------------------------------------ the program

\* the program as main wires it: every trigger goes through on_hotkey_clicked
Next ==
    \/ OnHotkeyClicked
    \/ StartClear
    \/ StartSpawn
    \/ \E t \in Threads : CaptureSetup(t)
    \/ \E t \in Threads : CaptureCheck(t)
    \/ \E t \in Threads : CapturePush(t)
    \/ \E t \in Threads : CaptureWait(t)
    \/ \E k \in Tasks : StopSetFlag(k)
    \/ \E k \in Tasks : StopClone(k)
    \/ \E k \in Tasks : Save(k)

Spec == Init /\ [][Next]_vars

\* a step of capture thread t
CaptureStep(t) ==
    \/ CaptureSetup(t)
    \/ CaptureCheck(t)
    \/ CapturePush(t)
    \/ CaptureWait(t)

\* every capture thread that can take a step eventually takes one: the OS
\* schedules it, and wait_for_event(100) returns after 100 ms at the latest
CaptureFairness ==
    \A t \in 1..MaxTriggers : WF_vars(t \in Threads /\ CaptureStep(t))

\* the program with one trigger fewer than MaxTriggers, for the liveness check
NextLive == Next /\ Triggers' < MaxTriggers

SpecLive == Init /\ [][NextLive]_vars /\ CaptureFairness

\* the recorder with its public start_recording also called directly
NextApi ==
    \/ Next
    \/ StartRecording

SpecApi == Init /\ [][NextApi]_vars

\* ------------------------------------------------------------ encode

\* frame_size of the Opus path (20 ms at 48 kHz) and of the MP3 path
OpusFrameSize == 960
Mp3FrameSize == 1152

\* channels as u8
U8(x) == x % 256

\* the number of chunks samples.chunks(size) yields, size > 0
Chunks(len, size) == (len + size - 1) \div size

\* a variant of EncErr that swallows the error
EncErrSwallowed(result, work) ==
    [result |-> "Ok", work |-> work, out |-> <<>>, frames |-> <<>>]

\* return Err(..): the bytes produced so far are dropped with the function's
\* locals
EncErr(result, work) ==
    [result |-> result, work |-> work, out |-> <<>>, frames |-> <<>>]

\* the i-th chunk of samples.chunks(size): the 1-based index of its first
\* sample and its length
Chunk(len, size, i) ==
    [first |-> (i - 1) * size + 1,
     count |-> IF i * size <= len THEN size ELSE len - (i - 1) * size]

\* a variant of Padding that never pads
PaddingNone(count, size) == 0

\* padded.resize(frame_size * channels, 0.0) if the chunk is shorter: the
\* number of zeros added
Padding(count, size) == IF count < size THEN size - count ELSE 0

\* the frame handed to encode_float for the i-th chunk
OpusFrame(len, size, i) ==
    [first |-> Chunk(len, size, i).first,
     count |-> Chunk(len, size, i).count,
     zeros |-> Padding(Chunk(len, size, i).count, size)]

\* the frame handed to the LAME encoder for the i-th chunk: the chunk itself
Mp3Frame(len, size, i) ==
    [first |-> Chunk(len, size, i).first,
     count |-> Chunk(len, size, i).count,
     zeros |-> 0]

\* b"OpusTags" and b"rust" as bytes
OpusTagsMagic == <<79, 112, 117, 115, 84, 97, 103, 115>>
VendorString == <<114, 117, 115, 116>>

\* comment_header: the magic, &[6, 0, 0, 0], the vendor string, &[0, 0, 0, 0]
CommentHeader ==
    OpusTagsMagic \o <<6, 0, 0, 0>> \o VendorString \o <<0, 0, 0, 0>>

\* a variant of OpusHeaders whose first packet does not end its page
OpusHeadersOnePage ==
    <<[packet |-> "OpusHead", frame |-> 0, absgp |-> 0,
       end_info |-> "NormalPacket"],
      [packet |-> "OpusTags", frame |-> 0, absgp |-> 0,
       end_info |-> "EndPage", data |-> CommentHeader]>>

OpusHeaders ==
    <<[packet |-> "OpusHead", frame |-> 0, absgp |-> 0,
       end_info |-> "EndPage"],
      [packet |-> "OpusTags", frame |-> 0, absgp |-> 0,
       end_info |-> "EndPage", data |-> CommentHeader]>>

\* the pages PacketWriter produces: a packet goes into the current page, and
\* a packet written with PacketWriteEndInfo::EndPage is the last of its page
RECURSIVE Pages(_)
Pages(packets) ==
    IF packets = <<>> THEN <<>>
    ELSE LET ends == {i \in 1..Len(packets) : packets[i].end_info = "EndPage"}
             k == IF ends = {} THEN Len(packets) ELSE Min(ends)
         IN  <<SubSeq(packets, 1, k)>>
                 \o Pages(SubSeq(packets, k + 1, Len(packets)))

\* a variant of NextAbsgp that counts packets
NextAbsgpByOne(absgp) == absgp + 1

\* absgp += frame_size as u64
NextAbsgp(absgp) == absgp + OpusFrameSize

\* a variant of OnFrameError that advances the granule position
OnFrameErrorAdvancing(prev, frame) ==
    [prev EXCEPT !.work = Append(@, "encode_float"),
                 !.frames = Append(@, frame),
                 !.absgp = NextAbsgp(@)]

\* Err(e) => error!(..): the frame was handed to encode_float, nothing is
\* written and the loop goes on
OnFrameError(prev, frame) ==
    [prev EXCEPT !.work = Append(@, "encode_float"),
                 !.frames = Append(@, frame)]

\* fn encode_to_ogg_opus.  env.new_ok: Encoder::new succeeds; env.failed: the
\* frames whose encode_float fails.  Writes go to a Vec and do not fail.
EncodeToOggOpus(len, channels, env) ==
    IF channels \notin {1, 2}
    THEN EncErr("UnsupportedChannelCount", <<>>)
    ELSE IF ~env.new_ok
    THEN EncErr("EncoderError", <<"Encoder::new">>)
    ELSE LET n == Chunks(len, OpusFrameSize * channels)
             F[i \in 0..n] ==
                 IF i = 0
                 THEN [absgp |-> 0,
                       work |-> <<"Encoder::new", "set_bitrate",
                                  "write_packet", "write_packet">>,
                       frames |-> <<>>,
                       out |-> OpusHeaders]
                 ELSE IF i \in env.failed
                 THEN OnFrameError(F[i - 1],
                                   OpusFrame(len, OpusFrameSize * channels, i))
                 ELSE [absgp |-> NextAbsgp(F[i - 1].absgp),
                       work |-> F[i - 1].work \o <<"encode_float", "write_packet">>,
                       frames |-> Append(F[i - 1].frames,
                                         OpusFrame(len, OpusFrameSize * channels, i)),
                       out |-> Append(F[i - 1].out,
                                      [packet |-> "audio", frame |-> i,
                                       absgp |-> NextAbsgp(F[i - 1].absgp),
                                       end_info |-> "EndPage"])]
         IN  [result |-> "Ok", work |-> F[n].work, out |-> F[n].out,
              frames |-> F[n].frames]

\* the calls that configure and build the LAME encoder, in order
Mp3Setup ==
    <<"Builder::new", "set_num_channels", "set_sample_rate", "set_brate",
      "set_quality", "build">>

\* fn encode_to_mp3.  env.setup_fail: the first of the Mp3Setup calls that
\* fails (0: none); env.fail_frame: the chunk whose encode fails (0: none);
\* env.flush_ok: flush succeeds.  samples.chunks(0) panics.
EncodeToMp3(len, channels, env) ==
    IF env.setup_fail > 0
    THEN EncErr("EncoderError", SubSeq(Mp3Setup, 1, env.setup_fail))
    ELSE IF Mp3FrameSize * channels = 0
    THEN EncErr("panic", Mp3Setup)
    ELSE LET n == Chunks(len, Mp3FrameSize * channels)
             F[i \in 0..n] ==
                 IF i = 0
                 THEN [result |-> "Ok", work |-> Mp3Setup, out |-> <<>>,
                       frames |-> <<>>]
                 ELSE IF F[i - 1].result # "Ok"
                 THEN F[i - 1]
                 ELSE IF channels \notin {1, 2}
                 THEN [EncErr("UnsupportedChannelCount", F[i - 1].work)
                          EXCEPT !.frames = F[i - 1].frames]
                 ELSE IF i = env.fail_frame
                 THEN [EncErr("EncoderError", Append(F[i - 1].work, "encode"))
                          EXCEPT !.frames = Append(F[i - 1].frames,
                                     Mp3Frame(len, Mp3FrameSize * channels, i))]
                 ELSE [result |-> "Ok",
                       work |-> Append(F[i - 1].work, "encode"),
                       frames |-> Append(F[i - 1].frames,
                                         Mp3Frame(len, Mp3FrameSize * channels, i)),
                       out |-> Append(F[i - 1].out,
                                      [packet |-> "audio", frame |-> i, absgp |-> 0])]
         IN  IF F[n].result # "Ok"
             THEN F[n]
             ELSE IF ~env.flush_ok
             THEN [EncErr("EncoderError", Append(F[n].work, "flush"))
                      EXCEPT !.frames = F[n].frames]
             ELSE [result |-> "Ok",
                   work |-> Append(F[n].work, "flush"),
                   frames |-> F[n].frames,
                   out |-> Append(F[n].out,
                                  [packet |-> "flush", frame |-> 0, absgp |-> 0])]

\* pub fn encode: match format
Encode(format, len, channels, env) ==
    CASE format = "Opus" -> EncodeToOggOpus(len, channels, env)
      [] format = "Mp3" -> EncodeToMp3(len, channels, env)

\* the channel counts and sample counts encode is called with
ChannelCounts == {0, 1, 2, 3, 257}
EncLens == {0, 1, 960, 1920, 1921, 2304, 2305}

\* what the codec libraries answer during one encode call; an answer that
\* the call does not come to ask for is fixed
EncAnswers(format, len, channels) ==
    IF format = "Opus"
    THEN {e \in [new_ok : BOOLEAN, failed : SUBSET (1..3), setup_fail : {0},
                 fail_frame : {0}, flush_ok : {TRUE}] :
            /\ channels \notin {1, 2} => (e.new_ok /\ e.failed = {})
            /\ ~e.new_ok => e.failed = {}
            /\ channels \in {1, 2}
                  => e.failed \subseteq 1..Chunks(len, OpusFrameSize * channels)}
    ELSE {e \in [new_ok : {TRUE}, failed : {{}}, setup_fail : 0..Len(Mp3Setup),
                 fail_frame : 0..3, flush_ok : BOOLEAN] :
            /\ e.setup_fail > 0 => (e.fail_frame = 0 /\ e.flush_ok)
            /\ channels \notin {1, 2} => (e.fail_frame = 0 /\ e.flush_ok)
            /\ channels \in {1, 2}
                  => e.fail_frame <= Chunks(len, Mp3FrameSize * channels)
            /\ e.fail_frame > 0 => e.flush_ok}

EncInputs ==
    /\ enc_pc = "init"
    /\ enc_format \in Formats
    /\ enc_len \in EncLens
    /\ enc_channels \in ChannelCounts
    /\ enc_work = <<>>
    /\ enc_out = <<>>
    /\ enc_frames = <<>>
    /\ enc_result = "none"

\* encode(format, &samples, sample_rate, channels)
EncEncode ==
    /\ enc_pc = "init"
    /\ \E env \in EncAnswers(enc_format, enc_len, enc_channels) :
          LET r == Encode(enc_format, enc_len, enc_channels, env)
          IN  /\ enc_work' = r.work
              /\ enc_out' = r.out
              /\ enc_frames' = r.frames
              /\ enc_result' = r.result
    /\ enc_pc' = "encoded"
    /\ UNCHANGED <<enc_format, enc_len, enc_channels>>
    /\ UNCHANGED <<recVars, lateVars, sigVars, fileVars, keyVars,
                   idsVars, lockVars, capVars>>

NextEncode == EncEncode

EncInit == RecInit /\ SigIdle /\ FileIdle /\ EncInputs /\ KeyIdle
            /\ IdsIdle /\ LockIdle /\ CapIdle /\ LateIdle

SpecEncode == EncInit /\ [][NextEncode]_vars

\* ------------------------------------------------------------ the hotkey listener

\* the combinations whose keys are all in the pressed set
Matching(keys) == {combo \in Registry : combo \subseteq keys}

\* EventType::KeyPress(key): if pressed.insert(key), call the callbacks of
\* every combination whose keys are all pressed
ListenerKeyPress(key) ==
    IF key \notin pressed
    THEN /\ pressed' = pressed \cup {key}
         /\ cb_calls' = [combo \in Registry |->
                            IF combo \in Matching(pressed \cup {key})
                            THEN cb_calls[combo] + 1 ELSE cb_calls[combo]]
    ELSE UNCHANGED <<pressed, cb_calls>>

\* EventType::KeyRelease(key): pressed.remove(&key)
ListenerKeyRelease(key) ==
    /\ pressed' = pressed \ {key}
    /\ UNCHANGED cb_calls

\* a key goes down; the listener gets its KeyPress.  A combination is
\* physically pressed when its last key goes down.
KeyDown(key) ==
    /\ key_events < MaxKeyEvents
    /\ key \notin key_down
    /\ key_down' = key_down \cup {key}
    /\ combo_presses' = [combo \in Registry |->
                            IF key \in combo /\ combo \subseteq key_down \cup {key}
                            THEN combo_presses[combo] + 1 ELSE combo_presses[combo]]
    /\ ListenerKeyPress(key)
    /\ key_events' = key_events + 1
    /\ UNCHANGED <<recVars, lateVars, sigVars, fileVars, encVars,
                   idsVars, lockVars, capVars>>

\* the OS repeats a held key; the listener gets another KeyPress
KeyRepeat(key) ==
    /\ key_events < MaxKeyEvents
    /\ key \in key_down
    /\ ListenerKeyPress(key)
    /\ key_events' = key_events + 1
    /\ UNCHANGED <<key_down, combo_presses>>
    /\ UNCHANGED <<recVars, lateVars, sigVars, fileVars, encVars,
                   idsVars, lockVars, capVars>>

\* a held key goes up; the listener gets its KeyRelease
KeyUp(key) ==
    /\ key_events < MaxKeyEvents
    /\ key \in key_down
    /\ key_down' = key_down \ {key}
    /\ ListenerKeyRelease(key)
    /\ key_events' = key_events + 1
    /\ UNCHANGED combo_presses
    /\ UNCHANGED <<recVars, lateVars, sigVars, fileVars, encVars,
                   idsVars, lockVars, capVars>>

NextKeys ==
    \/ \E key \in Keys : KeyDown(key)
    \/ \E key \in Keys : KeyRepeat(key)
    \/ \E key \in Keys : KeyUp(key)

KeysInit == RecInit /\ SigIdle /\ FileIdle /\ EncIdle /\ KeyIdle
            /\ IdsIdle /\ LockIdle /\ CapIdle /\ LateIdle

SpecKeys == KeysInit /\ [][NextKeys]_vars

\* ------------------------------------------------------------ get_latest_note_id alone

\* the values of a findNotes result array: note ids, and -1 for a value that
\* is not a u64
IdValues == {-1, 1, 2, 3}

IdsInputs ==
    /\ ids_pc = "init"
    /\ ids_in \in UNION {[1..n -> IdValues] : n \in 0..MaxIds}
    /\ ids_out = NoId

\* self.anki.get_latest_note_id() answered with the array ids_in
IdsLookup ==
    /\ ids_pc = "init"
    /\ ids_out' = GetLatestNoteId(ids_in)
    /\ ids_pc' = "done"
    /\ UNCHANGED ids_in
    /\ UNCHANGED <<recVars, lateVars, sigVars, fileVars, encVars, keyVars, lockVars, capVars>>

NextIds == IdsLookup

IdsInit == RecInit /\ SigIdle /\ FileIdle /\ EncIdle /\ KeyIdle
            /\ IdsInputs /\ LockIdle /\ CapIdle /\ LateIdle

SpecIds == IdsInit /\ [][NextIds]_vars

\* ------------------------------------------------------------ the two mutexes

LockOther == <<recVars, lateVars, sigVars, fileVars, encVars, keyVars, idsVars, capVars>>

\* the first thread of control of a kind that has not been created yet
FirstOff(procs) ==
    CHOOSE p \in procs :
        /\ lock_pc[p] = "off"
        /\ \A q \in procs : lock_pc[q] = "off" => p[2] <= q[2]

\* where a thread is once is_recording.lock() has returned
AfterFlagLock(pc) ==
    CASE pc = "hk_lock" -> "hk_read"
      [] pc = "start_lock" -> "start_flag"
      [] pc = "stop_lock" -> "stop_write"
      [] pc = "cap_lock" -> "cap_read"
      [] OTHER -> "none"

\* where a thread is once audio_buffer.lock() has returned
AfterBufLock(pc) ==
    CASE pc = "clear_lock" -> "clear"
      [] pc = "clone_lock" -> "clone"
      [] pc = "push_lock" -> "push"
      [] OTHER -> "none"

\* is_recording.lock().unwrap(): blocks while another thread holds the mutex
LockFlag(p) ==
    /\ AfterFlagLock(lock_pc[p]) # "none"
    /\ lock_flag = NoHolder
    /\ lock_flag' = p
    /\ lock_pc' = [lock_pc EXCEPT ![p] = AfterFlagLock(@)]
    /\ UNCHANGED <<lock_buf, lock_val>>
    /\ UNCHANGED LockOther

\* audio_buffer.lock().unwrap()
LockBuf(p) ==
    /\ AfterBufLock(lock_pc[p]) # "none"
    /\ lock_buf = NoHolder
    /\ lock_buf' = p
    /\ lock_pc' = [lock_pc EXCEPT ![p] = AfterBufLock(@)]
    /\ UNCHANGED <<lock_flag, lock_val>>
    /\ UNCHANGED LockOther

\* on_hotkey_clicked is called
LockTrigger ==
    /\ lock_pc[LockHotkey] = "idle"
    /\ lock_val.triggers < MaxTriggers
    /\ lock_pc' = [lock_pc EXCEPT ![LockHotkey] = "hk_lock"]
    /\ lock_val' = [lock_val EXCEPT !.triggers = @ + 1]
    /\ UNCHANGED <<lock_flag, lock_buf>>
    /\ UNCHANGED LockOther

\* on_hotkey_clicked: *recording is read, the guard is dropped, and either a
\* stop task is spawned or start_recording is entered
HotkeyRead ==
    /\ lock_pc[LockHotkey] = "hk_read"
    /\ lock_flag' = NoHolder
    /\ lock_pc' = IF lock_val.flag
                  THEN [lock_pc EXCEPT ![LockHotkey] = "idle",
                                       ![FirstOff(LockStops)] = "stop_lock"]
                  ELSE [lock_pc EXCEPT ![LockHotkey] = "start_lock"]
    /\ UNCHANGED <<lock_buf, lock_val>>
    /\ UNCHANGED LockOther

\* start_recording: if *recording { return Err } *recording = true
StartFlag ==
    /\ lock_pc[LockHotkey] = "start_flag"
    /\ lock_flag' = NoHolder
    /\ IF lock_val.flag
       THEN /\ lock_pc' = [lock_pc EXCEPT ![LockHotkey] = "idle"]
            /\ UNCHANGED lock_val
       ELSE /\ lock_pc' = [lock_pc EXCEPT ![LockHotkey] = "clear_lock"]
            /\ lock_val' = [lock_val EXCEPT !.flag = TRUE]
    /\ UNCHANGED lock_buf
    /\ UNCHANGED LockOther

\* start_recording: buffer.clear()
StartBufClear ==
    /\ lock_pc[LockHotkey] = "clear"
    /\ lock_val' = [lock_val EXCEPT !.buf = 0]
    /\ lock_buf' = NoHolder
    /\ lock_pc' = [lock_pc EXCEPT ![LockHotkey] = "spawn"]
    /\ UNCHANGED lock_flag
    /\ UNCHANGED LockOther

\* start_recording: the capture thread is spawned, or spawn fails; the new
\* thread sets up the device and the stream, which touches neither mutex,
\* or fails in doing so
StartSpawnThread ==
    /\ lock_pc[LockHotkey] = "spawn"
    /\ \E to \in {"cap_lock", "done", "off"} :
          lock_pc' = [lock_pc EXCEPT ![LockHotkey] = "idle",
                                     ![FirstOff(LockCaptures)] = to]
    /\ UNCHANGED <<lock_flag, lock_buf, lock_val>>
    /\ UNCHANGED LockOther

\* stop_recording_and_save: *recording = false
StopFlagWrite(s) ==
    /\ lock_pc[s] = "stop_write"
    /\ lock_val' = [lock_val EXCEPT !.flag = FALSE]
    /\ lock_flag' = NoHolder
    /\ lock_pc' = [lock_pc EXCEPT ![s] = "sleep"]
    /\ UNCHANGED lock_buf
    /\ UNCHANGED LockOther

\* stop_recording_and_save: thread::sleep(100 ms)
StopSleeps(s) ==
    /\ lock_pc[s] = "sleep"
    /\ lock_pc' = [lock_pc EXCEPT ![s] = "clone_lock"]
    /\ UNCHANGED <<lock_flag, lock_buf, lock_val>>
    /\ UNCHANGED LockOther

\* stop_recording_and_save: buffer.clone(); the rest of the call works on
\* the clone
StopBufClone(s) ==
    /\ lock_pc[s] = "clone"
    /\ lock_buf' = NoHolder
    /\ lock_pc' = [lock_pc EXCEPT ![s] = "done"]
    /\ UNCHANGED <<lock_flag, lock_val>>
    /\ UNCHANGED LockOther

\* capture_loop: should_continue = *recording; on false the loop is left,
\* the stream is stopped and the thread ends
CaptureFlagRead(c) ==
    /\ lock_pc[c] = "cap_read"
    /\ lock_flag' = NoHolder
    /\ lock_pc' = [lock_pc EXCEPT ![c] = IF lock_val.flag THEN "read_dev"
                                         ELSE "done"]
    /\ UNCHANGED <<lock_buf, lock_val>>
    /\ UNCHANGED LockOther

\* capture_loop: read_from_device_to_deque(&mut sample_queue)?
CaptureReadDevice(c) ==
    /\ lock_pc[c] = "read_dev"
    /\ \/ /\ lock_pc' = [lock_pc EXCEPT ![c] = "done"]
          /\ UNCHANGED lock_val
       \/ \E n \in 0..MaxBuf :
             /\ n + lock_val.buf <= MaxBuf
             /\ lock_val' = [lock_val EXCEPT !.queued[c] = @ + n]
             /\ lock_pc' = [lock_pc EXCEPT ![c] = "unpack"]
    /\ UNCHANGED <<lock_flag, lock_buf>>
    /\ UNCHANGED LockOther

\* capture_loop: while sample_queue.len() >= 4 { pop four bytes .. }
CaptureUnpack(c) ==
    /\ lock_pc[c] = "unpack"
    /\ IF lock_val.queued[c] > 0
       THEN /\ lock_val' = [lock_val EXCEPT !.queued[c] = @ - 1]
            /\ lock_pc' = [lock_pc EXCEPT ![c] = "push_lock"]
       ELSE /\ lock_pc' = [lock_pc EXCEPT ![c] = "wait"]
            /\ UNCHANGED lock_val
    /\ UNCHANGED <<lock_flag, lock_buf>>
    /\ UNCHANGED LockOther

\* a variant of CaptureBufPush whose guard outlives the while loop
CaptureBufPushHolding(c) ==
    /\ lock_pc[c] = "push"
    /\ lock_val' = [lock_val EXCEPT !.buf = @ + 1]
    /\ lock_pc' = [lock_pc EXCEPT ![c] = "unpack"]
    /\ UNCHANGED <<lock_flag, lock_buf>>
    /\ UNCHANGED LockOther

\* capture_loop: buffer.push(sample); the guard is dropped at the end of the
\* while body
CaptureBufPush(c) ==
    /\ lock_pc[c] = "push"
    /\ lock_val' = [lock_val EXCEPT !.buf = @ + 1]
    /\ lock_buf' = NoHolder
    /\ lock_pc' = [lock_pc EXCEPT ![c] = "unpack"]
    /\ UNCHANGED lock_flag
    /\ UNCHANGED LockOther

\* capture_loop: h_event.wait_for_event(100) returns, with the event or
\* with the timeout
CaptureWaitForEvent(c) ==
    /\ lock_pc[c] = "wait"
    /\ lock_pc' = [lock_pc EXCEPT ![c] = "cap_lock"]
    /\ UNCHANGED <<lock_flag, lock_buf, lock_val>>
    /\ UNCHANGED LockOther

NextLocks ==
    \/ LockTrigger
    \/ HotkeyRead
    \/ StartFlag
    \/ StartBufClear
    \/ StartSpawnThread
    \/ \E p \in LockProcs : LockFlag(p)
    \/ \E p \in LockProcs : LockBuf(p)
    \/ \E s \in LockStops : StopFlagWrite(s)
    \/ \E s \in LockStops : StopSleeps(s)
    \/ \E s \in LockStops : StopBufClone(s)
    \/ \E c \in LockCaptures : CaptureFlagRead(c)
    \/ \E c \in LockCaptures : CaptureReadDevice(c)
    \/ \E c \in LockCaptures : CaptureUnpack(c)
    \/ \E c \in LockCaptures : CaptureBufPush(c)
    \/ \E c \in LockCaptures : CaptureWaitForEvent(c)

\* the recorder after AudioRecorder::new, the hotkey task waiting
LocksStart ==
    /\ lock_flag = NoHolder
    /\ lock_buf = NoHolder
    /\ lock_pc = [p \in LockProcs |-> IF p = LockHotkey THEN "idle" ELSE "off"]
    /\ lock_val = [flag |-> FALSE, buf |-> 0, triggers |-> 0,
                   queued |-> [c \in LockCaptures |-> 0]]

LocksInit == RecInit /\ SigIdle /\ FileIdle /\ EncIdle /\ KeyIdle
            /\ IdsIdle /\ LocksStart /\ CapIdle /\ LateIdle

SpecLocks == LocksInit /\ [][NextLocks]_vars

\* ------------------------------------------------------------ capture_loop's bytes

CapOther == <<recVars, lateVars, sigVars, fileVars, encVars, keyVars, idsVars, lockVars>>

\* the values of the bytes the device delivers
ByteVals == {0, 1, 127}

\* the byte sequences of length n
Bytes(n) == [1..n -> ByteVals]

\* a variant of FromLeBytes that takes the first byte as the most significant
FromBeBytes(bytes) ==
    16777216 * bytes[1] + 65536 * bytes[2] + 256 * bytes[3] + bytes[4]

\* f32::from_le_bytes(bytes): the f32 is modelled as its 32-bit pattern
FromLeBytes(bytes) ==
    bytes[1] + 256 * bytes[2] + 65536 * bytes[3] + 16777216 * bytes[4]

\* capture_loop: should_continue = *recording; the flag is written by
\* other threads, so either value may be found
CapCheck ==
    /\ cap_pc = "check"
    /\ cap_pc' \in {"read", "done"}
    /\ UNCHANGED <<cap_queue, cap_stream, cap_buffer>>
    /\ UNCHANGED CapOther

\* capture_loop: read_from_device_to_deque(&mut sample_queue)? appends the
\* bytes the device has ready to the queue, or fails
CapRead ==
    /\ cap_pc = "read"
    /\ \/ /\ cap_pc' = "failed"
          /\ UNCHANGED <<cap_queue, cap_stream>>
       \/ \E n \in 0..(MaxBytes - Len(cap_stream)) : \E bytes \in Bytes(n) :
             /\ cap_queue' = cap_queue \o bytes
             /\ cap_stream' = cap_stream \o bytes
             /\ cap_pc' = "unpack"
    /\ UNCHANGED cap_buffer
    /\ UNCHANGED CapOther

\* capture_loop: one turn of while sample_queue.len() >= 4: four
\* pop_front, from_le_bytes, push
CapUnpack ==
    /\ cap_pc = "unpack"
    /\ Len(cap_queue) >= BytesPerSample
    /\ cap_buffer' = Append(cap_buffer, FromLeBytes(SubSeq(cap_queue, 1, 4)))
    /\ cap_queue' = SubSeq(cap_queue, 5, Len(cap_queue))
    /\ UNCHANGED <<cap_pc, cap_stream>>
    /\ UNCHANGED CapOther

\* capture_loop: the while condition is false
CapUnpackEnd ==
    /\ cap_pc = "unpack"
    /\ Len(cap_queue) < BytesPerSample
    /\ cap_pc' = "wait"
    /\ UNCHANGED <<cap_queue, cap_stream, cap_buffer>>
    /\ UNCHANGED CapOther

\* capture_loop: h_event.wait_for_event(100) returns
CapWait ==
    /\ cap_pc = "wait"
    /\ cap_pc' = "check"
    /\ UNCHANGED <<cap_queue, cap_stream, cap_buffer>>
    /\ UNCHANGED CapOther

NextCapture ==
    \/ CapCheck
    \/ CapRead
    \/ CapUnpack
    \/ CapUnpackEnd
    \/ CapWait

\* capture_loop entering its loop: an empty queue, nothing read or pushed
CapStart ==
    /\ cap_pc = "check"
    /\ cap_queue = <<>>
    /\ cap_stream = <<>>
    /\ cap_buffer = <<>>

CaptureInit == RecInit /\ SigIdle /\ FileIdle /\ EncIdle /\ KeyIdle
            /\ IdsIdle /\ LockIdle /\ CapStart /\ LateIdle

SpecCapture == CaptureInit /\ [][NextCapture]_vars

\* ------------------------------------------------------------ the trigger channels

ChanOther == <<recVars, sigVars, fileVars, encVars, keyVars, idsVars, lockVars,
               capVars, mgrVars, ovlVars, shotVars>>

\* a variant of TrySend that waits for room, as Sender::blocking_send does
SendBlocking(queue) ==
    IF Len(queue) < ChanCapacity
    THEN [queue |-> Append(queue, "trigger"), result |-> "Ok", blocks |-> FALSE]
    ELSE [queue |-> queue, result |-> "none", blocks |-> TRUE]

\* tx.try_send(()) on a channel of capacity 1: the value is queued if there
\* is room, otherwise Err(Full) is returned at once
TrySend(queue) ==
    IF Len(queue) < ChanCapacity
    THEN [queue |-> Append(queue, "trigger"), result |-> "Ok", blocks |-> FALSE]
    ELSE [queue |-> queue, result |-> "Full", blocks |-> FALSE]

\* the closure registered for the combination, called by the listener
\* thread: try_send, and eprintln! on Err
ChanCallback(combo) ==
    /\ chan_listener = "listening"
    /\ chan_log[combo].calls < MaxSends
    /\ LET r == TrySend(chan_q[combo])
       IN  /\ chan_q' = [chan_q EXCEPT ![combo] = r.queue]
           /\ chan_listener' = IF r.blocks THEN "blocked" ELSE "listening"
           /\ chan_log' = [chan_log EXCEPT
                  ![combo].calls = @ + 1,
                  ![combo].sent = IF r.result = "Ok" THEN @ + 1 ELSE @,
                  ![combo].errors = IF r.result = "Full" THEN @ + 1 ELSE @]
    /\ UNCHANGED chan_rx
    /\ UNCHANGED ChanOther

\* the spawned task: rx.recv().await returns a queued trigger
ChanRecv(combo) ==
    /\ chan_rx[combo] = "recv"
    /\ chan_q[combo] # <<>>
    /\ chan_q' = [chan_q EXCEPT ![combo] = Tail(@)]
    /\ chan_rx' = [chan_rx EXCEPT ![combo] = "handling"]
    /\ UNCHANGED <<chan_listener, chan_log>>
    /\ UNCHANGED ChanOther

\* the spawned task: on_hotkey_clicked has returned, back to recv
ChanHandled(combo) ==
    /\ chan_rx[combo] = "handling"
    /\ chan_rx' = [chan_rx EXCEPT ![combo] = "recv"]
    /\ chan_log' = [chan_log EXCEPT ![combo].handled = @ + 1]
    /\ UNCHANGED <<chan_q, chan_listener>>
    /\ UNCHANGED ChanOther

NextChan ==
    \/ \E combo \in Registry : ChanCallback(combo)
    \/ \E combo \in Registry : ChanRecv(combo)
    \/ \E combo \in Registry : ChanHandled(combo)

\* after setup_screenshot_hotkey and setup_audio_record_hotkey: two empty
\* channels, their tasks in recv, the listener running
ChanStart ==
    /\ chan_q = [combo \in Registry |-> <<>>]
    /\ chan_listener = "listening"
    /\ chan_rx = [combo \in Registry |-> "recv"]
    /\ chan_log = [combo \in Registry |->
                      [calls |-> 0, sent |-> 0, errors |-> 0, handled |-> 0]]

ChanInit == RecInit /\ SigIdle /\ FileIdle /\ EncIdle /\ KeyIdle
            /\ IdsIdle /\ LockIdle /\ CapIdle
            /\ ChanStart /\ MgrIdle /\ OvlIdle /\ ShotIdle

SpecChan == ChanInit /\ [][NextChan]_vars

\* ------------------------------------------------------------ HotKeyManager

MgrOther == <<recVars, sigVars, fileVars, encVars, keyVars, idsVars, lockVars,
              capVars, chanVars, ovlVars, shotVars>>

\* the threads that call HotKeyManager
MgrThreads == {1, 2}

MgrReady == [pc |-> "idle", combo |-> {}, cb |-> 0]

\* a variant of Swap that stores true without returning the old value
SwapBlind(flag) == [old |-> FALSE, new |-> TRUE]

\* LISTENER_STARTED.swap(true, Ordering::SeqCst): one atomic step
Swap(flag) == [old |-> flag, new |-> TRUE]

\* HotKeyManager::init: the swap; on true the call returns
MgrInitSwap(t) ==
    /\ mgr_pc[t].pc = "idle"
    /\ mgr_calls < MaxCalls
    /\ mgr_calls' = mgr_calls + 1
    /\ mgr_started' = Swap(mgr_started).new
    /\ mgr_pc' = IF Swap(mgr_started).old THEN mgr_pc
                 ELSE [mgr_pc EXCEPT ![t].pc = "spawn"]
    /\ UNCHANGED <<mgr_listeners, mgr_registry>>
    /\ UNCHANGED MgrOther

\* HotKeyManager::init: Self::start_global_listener()
MgrInitSpawn(t) ==
    /\ mgr_pc[t].pc = "spawn"
    /\ mgr_listeners' = mgr_listeners + 1
    /\ mgr_pc' = [mgr_pc EXCEPT ![t] = MgrReady]
    /\ UNCHANGED <<mgr_started, mgr_registry, mgr_calls>>
    /\ UNCHANGED MgrOther

\* register_hotkey: LISTENER_STARTED.load; on false warn and return.  The
\* callback is named by the number of the call.
MgrRegisterLoad(t, combo) ==
    /\ mgr_pc[t].pc = "idle"
    /\ mgr_calls < MaxCalls
    /\ mgr_calls' = mgr_calls + 1
    /\ mgr_pc' = IF ~mgr_started THEN mgr_pc
                 ELSE [mgr_pc EXCEPT ![t] = [pc |-> "push", combo |-> combo,
                                              cb |-> mgr_calls + 1]]
    /\ UNCHANGED <<mgr_started, mgr_listeners, mgr_registry>>
    /\ UNCHANGED MgrOther

\* register_hotkey: under the registry's lock,
\* map.entry(combo).or_default().push(Box::new(callback))
MgrRegisterPush(t) ==
    /\ mgr_pc[t].pc = "push"
    /\ mgr_registry' = [mgr_registry EXCEPT ![mgr_pc[t].combo] =
                                                Append(@, mgr_pc[t].cb)]
    /\ mgr_pc' = [mgr_pc EXCEPT ![t] = MgrReady]
    /\ UNCHANGED <<mgr_started, mgr_listeners, mgr_calls>>
    /\ UNCHANGED MgrOther

NextMgr ==
    \/ \E t \in MgrThreads : MgrInitSwap(t)
    \/ \E t \in MgrThreads : MgrInitSpawn(t)
    \/ \E t \in MgrThreads : \E combo \in Registry : MgrRegisterLoad(t, combo)
    \/ \E t \in MgrThreads : MgrRegisterPush(t)

\* the statics before any call: LISTENER_STARTED false, the registry empty
MgrStart ==
    /\ mgr_started = FALSE
    /\ mgr_listeners = 0
    /\ mgr_registry = [combo \in Registry |-> <<>>]
    /\ mgr_pc = [t \in MgrThreads |-> MgrReady]
    /\ mgr_calls = 0

MgrInit == RecInit /\ SigIdle /\ FileIdle /\ EncIdle /\ KeyIdle
            /\ IdsIdle /\ LockIdle /\ CapIdle
            /\ ChanIdle /\ MgrStart /\ OvlIdle /\ ShotIdle

SpecMgr == MgrInit /\ [][NextMgr]_vars

\* ------------------------------------------------------------ BorderOverlay

OvlOther == <<recVars, sigVars, fileVars, encVars, keyVars, idsVars, lockVars,
              capVars, chanVars, mgrVars, shotVars>>

\* the messages the system puts in the window thread's queue by itself
SystemMessages == {"WM_PAINT", "WM_CLOSE"}

\* a variant of take() that leaves the handle in place
PeekHandle(handle) == [taken |-> handle = "Some", left |-> handle]

\* self.thread_handle.take()
TakeHandle(handle) == [taken |-> handle = "Some", left |-> "None"]

\* PostMessageW(hwnd, WM_DESTROY, ..): the result is dropped; the message
\* is queued while the window exists
PostDestroy(queue, thread) ==
    IF thread = "loop" THEN Append(queue, "WM_DESTROY") ELSE queue

\* BorderOverlay::new: the thread is spawned, creates the window, sends the
\* handle and enters its message loop; when window_thread_main fails the
\* sender is dropped, rx.recv() fails and no overlay exists
OvlNew(ok) ==
    /\ ovl_owner = "off"
    /\ ovl_owner' = IF ok THEN "alive" ELSE "failed"
    /\ ovl_handle' = IF ok THEN "Some" ELSE "None"
    /\ ovl_thread' = IF ok THEN "loop" ELSE "exited"
    /\ UNCHANGED <<ovl_queue, ovl_log>>
    /\ UNCHANGED OvlOther

\* the system queues a message for the window
OvlSystemMessage(msg) ==
    /\ ovl_thread = "loop"
    /\ Len(ovl_queue) < MaxQueue
    /\ ovl_queue' = Append(ovl_queue, msg)
    /\ UNCHANGED <<ovl_handle, ovl_owner, ovl_thread, ovl_log>>
    /\ UNCHANGED OvlOther

\* one turn of the message loop: GetMessageW, then DispatchMessageW into
\* wnd_proc.  WM_QUIT ends the loop and the thread; WM_DESTROY calls
\* PostQuitMessage; WM_CLOSE goes to DefWindowProcW, which destroys the
\* window and so delivers WM_DESTROY.
OvlDispatch ==
    /\ ovl_thread \in {"loop", "loop_nowindow"}
    /\ ovl_queue # <<>>
    /\ LET msg == Head(ovl_queue) IN
         /\ ovl_thread' = CASE msg = "WM_QUIT" -> "exited"
                            [] msg = "WM_CLOSE" -> "loop_nowindow"
                            [] OTHER -> ovl_thread
         /\ ovl_queue' = CASE msg = "WM_QUIT" -> <<>>
                           [] msg \in {"WM_DESTROY", "WM_CLOSE"} ->
                                 Append(Tail(ovl_queue), "WM_QUIT")
                           [] OTHER -> Tail(ovl_queue)
    /\ UNCHANGED <<ovl_handle, ovl_owner, ovl_log>>
    /\ UNCHANGED OvlOther

\* the body shared by stop and drop, up to the join: take the handle and,
\* when there was one, post WM_DESTROY
OvlTeardown(via, joining, done) ==
    LET r == TakeHandle(ovl_handle) IN
    /\ ovl_handle' = r.left
    /\ ovl_owner' = IF r.taken THEN joining ELSE done
    /\ ovl_queue' = IF r.taken THEN PostDestroy(ovl_queue, ovl_thread)
                    ELSE ovl_queue
    /\ ovl_log' = IF r.taken
                  THEN [ovl_log EXCEPT !.posts = @ + 1,
                                       !.via = Append(@, via)]
                  ELSE ovl_log
    /\ UNCHANGED ovl_thread
    /\ UNCHANGED OvlOther

\* stop(mut self)
OvlStop ==
    /\ ovl_owner = "alive"
    /\ OvlTeardown("stop", "stop_join", "stop_end")

\* Drop::drop: of an overlay never stopped, or of self at the end of stop
OvlDrop ==
    /\ ovl_owner \in {"alive", "stop_end"}
    /\ OvlTeardown("drop", "drop_join", "dropped")

\* handle.join(): returns once the window thread has ended
OvlJoin ==
    /\ ovl_owner \in {"stop_join", "drop_join"}
    /\ ovl_thread = "exited"
    /\ ovl_owner' = IF ovl_owner = "stop_join" THEN "stop_end" ELSE "dropped"
    /\ ovl_log' = [ovl_log EXCEPT !.joins = @ + 1]
    /\ UNCHANGED <<ovl_handle, ovl_queue, ovl_thread>>
    /\ UNCHANGED OvlOther

NextOverlay ==
    \/ \E ok \in BOOLEAN : OvlNew(ok)
    \/ \E msg \in SystemMessages : OvlSystemMessage(msg)
    \/ OvlDispatch
    \/ OvlStop
    \/ OvlDrop
    \/ OvlJoin

\* before BorderOverlay::new
OvlStart ==
    /\ ovl_handle = "None"
    /\ ovl_owner = "off"
    /\ ovl_queue = <<>>
    /\ ovl_thread = "off"
    /\ ovl_log = [posts |-> 0, joins |-> 0, via |-> <<>>]

OverlayInit == RecInit /\ SigIdle /\ FileIdle /\ EncIdle /\ KeyIdle
                /\ IdsIdle /\ LockIdle /\ CapIdle
                /\ ChanIdle /\ MgrIdle /\ OvlStart /\ ShotIdle

SpecOverlay == OverlayInit /\ [][NextOverlay]_vars

\* ------------------------------------------------------------ capture_active_window

ShotOther == <<recVars, sigVars, fileVars, encVars, keyVars, idsVars, lockVars,
               capVars, chanVars, mgrVars, ovlVars>>

\* the caller holds the image's mutex between lock() and the wait, and from
\* the end of the wait to the return
ShotLockHeld == shot_caller \in {"locked", "woke", "timed_out"}

\* a variant of the result that goes by the timer instead of the image
OutcomeByTimer(image, timed_out) ==
    IF timed_out THEN "timeout" ELSE "image"

\* if let Some(img) = &*guard { return Ok(img.clone()) }
\* Err(anyhow!("截图超时"))
Outcome(image, timed_out) ==
    IF image = "Some" THEN "image" ELSE "timeout"

\* a call of capture_active_window, up to Handler::start(settings)?: a
\* fresh (Mutex<None>, Condvar) pair; on an error of start the function
\* returns it; on Ok the capture is running and frames may arrive.  A call
\* begins once the capture of the call before it is over.
ShotHandlerStart(ok) ==
    /\ shot_caller \in {"off", "returned"}
    /\ shot_handler \in {"off", "stopped", "failed"}
    /\ shot_calls < MaxShots
    /\ shot_calls' = shot_calls + 1
    /\ shot_image' = "None"
    /\ shot_cvar' = "idle"
    /\ shot_clock' = 0
    /\ shot_caller' = IF ok THEN "started" ELSE "returned"
    /\ shot_handler' = IF ok THEN "ready" ELSE "off"
    /\ shot_result' = IF ok THEN "none" ELSE "start_error"
    /\ UNCHANGED ShotOther

\* Handler::start(settings)? returning the frame handler's error
ShotHandlerError ==
    /\ shot_caller = "started"
    /\ shot_handler = "failed"
    /\ shot_caller' = "returned"
    /\ shot_result' = "start_error"
    /\ UNCHANGED <<shot_image, shot_handler, shot_cvar, shot_clock, shot_calls>>
    /\ UNCHANGED ShotOther

\* let guard = lock.lock().unwrap()
ShotLock ==
    /\ shot_caller = "started"
    /\ shot_caller' = "locked"
    /\ UNCHANGED <<shot_image, shot_handler, shot_cvar, shot_result, shot_clock, shot_calls>>
    /\ UNCHANGED ShotOther

\* cvar.wait_timeout_while(guard, timeout, |img| img.is_none()): the
\* condition is tested before any wait; when it holds the mutex is
\* released and the caller waits, in one step
ShotWaitEnter ==
    /\ shot_caller = "locked"
    /\ shot_caller' = IF shot_image = "None" THEN "waiting" ELSE "woke"
    /\ shot_cvar' = IF shot_image = "None" THEN "waiting" ELSE shot_cvar
    /\ UNCHANGED <<shot_image, shot_handler, shot_result, shot_clock, shot_calls>>
    /\ UNCHANGED ShotOther

\* a wake-up, notified or spurious: the mutex is taken again and the
\* condition tested again
ShotWake ==
    /\ shot_caller = "waiting"
    /\ shot_caller' = IF shot_image = "None" THEN "waiting" ELSE "woke"
    /\ shot_cvar' = IF shot_image = "None" THEN "waiting" ELSE "idle"
    /\ UNCHANGED <<shot_image, shot_handler, shot_result, shot_clock, shot_calls>>
    /\ UNCHANGED ShotOther

\* a second passes in the wait
ShotTick ==
    /\ shot_caller = "waiting"
    /\ shot_clock < WaitSeconds
    /\ shot_clock' = shot_clock + 1
    /\ UNCHANGED <<shot_image, shot_caller, shot_handler, shot_cvar,
                   shot_result, shot_calls>>
    /\ UNCHANGED ShotOther

\* the three seconds are over: the wait ends with the mutex taken again
ShotTimeout ==
    /\ shot_caller = "waiting"
    /\ shot_clock = WaitSeconds
    /\ shot_caller' = "timed_out"
    /\ shot_cvar' = "idle"
    /\ UNCHANGED <<shot_image, shot_handler, shot_result, shot_clock, shot_calls>>
    /\ UNCHANGED ShotOther

\* the end of capture_active_window
ShotReturn ==
    /\ shot_caller \in {"woke", "timed_out"}
    /\ shot_result' = Outcome(shot_image, shot_caller = "timed_out")
    /\ shot_caller' = "returned"
    /\ UNCHANGED <<shot_image, shot_handler, shot_cvar, shot_clock, shot_calls>>
    /\ UNCHANGED ShotOther

\* on_frame_arrived up to the store: the image is built, or from_raw gives
\* None and the handler returns the error; the store takes the mutex for
\* the assignment alone
ShotFrame(ok) ==
    /\ shot_handler = "ready"
    /\ ok => ~ShotLockHeld
    /\ shot_handler' = IF ok THEN "stored" ELSE "failed"
    /\ shot_image' = IF ok THEN "Some" ELSE shot_image
    /\ UNCHANGED <<shot_caller, shot_cvar, shot_result, shot_clock, shot_calls>>
    /\ UNCHANGED ShotOther

\* cvar.notify_one(): wakes a waiter if there is one, else does nothing
ShotNotify ==
    /\ shot_handler = "stored"
    /\ shot_handler' = "notified"
    /\ shot_cvar' = IF shot_cvar = "waiting" THEN "notified" ELSE shot_cvar
    /\ UNCHANGED <<shot_image, shot_caller, shot_result, shot_clock, shot_calls>>
    /\ UNCHANGED ShotOther

\* capture_control.stop(); Ok(())
ShotStopCapture ==
    /\ shot_handler = "notified"
    /\ shot_handler' = "stopped"
    /\ UNCHANGED <<shot_image, shot_caller, shot_cvar, shot_result, shot_clock, shot_calls>>
    /\ UNCHANGED ShotOther

ShotCaller ==
    \/ \E ok \in BOOLEAN : ShotHandlerStart(ok)
    \/ ShotHandlerError
    \/ ShotLock
    \/ ShotWaitEnter
    \/ ShotWake
    \/ ShotTick
    \/ ShotTimeout
    \/ ShotReturn

NextShot ==
    \/ ShotCaller
    \/ \E ok \in BOOLEAN : ShotFrame(ok)
    \/ ShotNotify
    \/ ShotStopCapture

ShotInit == RecInit /\ SigIdle /\ FileIdle /\ EncIdle /\ KeyIdle
             /\ IdsIdle /\ LockIdle /\ CapIdle
             /\ ChanIdle /\ MgrIdle /\ OvlIdle /\ ShotIdle

SpecShot == ShotInit /\ [][NextShot]_vars

\* the calling thread keeps running, and the three seconds pass
ShotFairness ==
    /\ WF_vars(ShotLock)
    /\ WF_vars(ShotWaitEnter)
    /\ WF_vars(ShotTick)
    /\ WF_vars(ShotTimeout)
    /\ WF_vars(ShotReturn)

SpecShotLive == ShotInit /\ [][NextShot]_vars /\ ShotFairness

\* ------------------------------------------------------------ the signal functions alone

\* sample values, in hundredths
SigHundredths == {-120, -70, -30, 0, 1, 2, 30, 70, 100, 120}
SigVals == {Rat(h, 100) : h \in SigHundredths}
SigThresholds == {Rat(0, 1), Rat(1, 100), Rat(1, 2)}

SigInputs ==
    /\ sig_pc = "init"
    /\ sig_in \in UNION {[1..n -> SigVals] : n \in 0..MaxLen}
    /\ sig_thr \in SigThresholds
    /\ sig_out = <<>>

\* Self::normalize_audio(&mut normalized_data)
SigNormalize ==
    /\ sig_pc = "init"
    /\ sig_out' = NormalizeAudio(sig_in)
    /\ sig_pc' = "normalized"
    /\ UNCHANGED <<sig_in, sig_thr>>
    /\ UNCHANGED <<recVars, lateVars, fileVars, encVars, keyVars,
                   idsVars, lockVars, capVars>>

\* Self::trim_silence(&samples, threshold)
SigTrim ==
    /\ sig_pc = "init"
    /\ sig_out' = TrimSilence(sig_in, sig_thr)
    /\ sig_pc' = "trimmed"
    /\ UNCHANGED <<sig_in, sig_thr>>
    /\ UNCHANGED <<recVars, lateVars, fileVars, encVars, keyVars,
                   idsVars, lockVars, capVars>>

NextSignal ==
    \/ SigNormalize
    \/ SigTrim

SigInit == RecInit /\ SigInputs /\ FileIdle /\ EncIdle /\ KeyIdle
            /\ IdsIdle /\ LockIdle /\ CapIdle /\ LateIdle

SpecSignal == SigInit /\ [][NextSignal]_vars

\* ------------------------------------------------------------ generate_filename alone

\* the characters of a window title: the illegal ones, and two legal ones
TitleChars == IllegalChars \cup {"a", "_"}

FileInputs ==
    /\ file_pc = "init"
    /\ file_title \in UNION {[1..n -> TitleChars] : n \in 0..MaxTitle}
    /\ file_ext \in Formats
    /\ file_name = <<>>

\* self.generate_filename(&self.cfg.field_name, self.cfg.format.clone()) with
\* file_title in the foreground
FileGenerate ==
    /\ file_pc = "init"
    /\ file_name' = GenerateFilename(FieldName, file_title, UnixTime, file_ext)
    /\ file_pc' = "named"
    /\ UNCHANGED <<file_title, file_ext>>
    /\ UNCHANGED <<recVars, lateVars, sigVars, encVars, keyVars,
                   idsVars, lockVars, capVars>>

\* generate_filename again, in a window whose title is the sanitized title
\* of the first call
FileGenerateAgain ==
    /\ file_pc = "named"
    /\ file_name' = GenerateFilename(FieldName, file_name[3], UnixTime, file_ext)
    /\ file_pc' = "renamed"
    /\ UNCHANGED <<file_title, file_ext>>
    /\ UNCHANGED <<recVars, lateVars, sigVars, encVars, keyVars,
                   idsVars, lockVars, capVars>>

NextFile ==
    \/ FileGenerate
    \/ FileGenerateAgain

FileInit == RecInit /\ SigIdle /\ FileInputs /\ EncIdle /\ KeyIdle
            /\ IdsIdle /\ LockIdle /\ CapIdle /\ LateIdle

SpecFile == FileInit /\ [][NextFile]_vars

\* ------------------------------------------------------------ properties

StopCall == "stop_recording_and_save"

\* task k takes its snapshot in this step
Snapshots(k) == tasks[k].pc = "sleep" /\ tasks'[k].pc # "sleep"

\* a task that has returned takes no further step
ReturnedTasksRest ==
    \A k \in Tasks : tasks[k].pc = "done" => tasks'[k] = tasks[k]

\* C1: a start_recording call made while the flag is true returns
\* AlreadyRecording, spawns no thread and leaves flag and buffer as they were
ThmC1 ==
    [][(start_calls' # start_calls /\ is_recording)
          => /\ returned' = StartReturn(start_calls', "AlreadyRecording")
             /\ is_recording' = is_recording
             /\ audio_buffer' = audio_buffer
             /\ threads' = threads
             /\ hk' = "idle"]_vars

WitC1 ==
    /\ returned.call = "start_recording"
    /\ returned.result = "AlreadyRecording"
    /\ is_recording
    /\ \E t \in Threads : threads[t].pc = "unpack"

\* C2: once a session's snapshot has been cloned, that session's capture
\* thread appends no sample to the buffer
CxC2 ==
    [][\A t \in Threads :
          threads[t].session \in snapshotted
              => ~(/\ threads'[t].sample_queue < threads[t].sample_queue
                   /\ Len(audio_buffer') = Len(audio_buffer) + 1)]_vars

\* thread t is in its loop with a complete sample queued: its next step appends
Appending(t) ==
    threads[t].pc = "unpack" /\ threads[t].sample_queue >= BytesPerSample

\* C3: at most one capture thread is alive and appending to the buffer
CxC3 == Cardinality({t \in Threads : Appending(t)}) <= 1

\* C4: a stop task whose snapshot is empty returns NoAudioCaptured, having
\* made no request to the note store and written no file, and does nothing after
ThmC4 ==
    [][/\ \A k \in Tasks :
             (Snapshots(k) /\ audio_buffer = <<>>)
                 => /\ returned' = StopReturn(k, "NoAudioCaptured", <<>>, 0)
                    /\ tasks'[k].pc = "done"
                    /\ media_files' = media_files
                    /\ note_fields' = note_fields
       /\ ReturnedTasksRest]_vars

WitC4 ==
    /\ returned.call = StopCall
    /\ returned.result = "NoAudioCaptured"
    /\ tasks[returned.id].pc = "done"

AllZero(samples) == \A i \in 1..Len(samples) : RatEq(samples[i], Zero)

\* C5: a stop task whose snapshot is non-empty and all zero returns
\* SilentRecording, without a file written or a request to the note store
CxC5 ==
    [][\A k \in Tasks :
          (Snapshots(k) /\ audio_buffer # <<>> /\ AllZero(audio_buffer))
              => /\ returned' = StopReturn(k, "SilentRecording", <<>>, 0)
                 /\ tasks'[k].pc = "done"]_vars

\* the minimal contiguous range holding every sample above the threshold
LoudRange(samples, threshold) ==
    IF Loud(samples, threshold) = {} THEN <<>>
    ELSE SubSeq(samples, Min(Loud(samples, threshold)), Max(Loud(samples, threshold)))

\* C6: trim_silence returns the minimal range holding every sample above the
\* threshold, and the empty range when there is none
CxC6 == sig_pc = "trimmed" => sig_out = LoudRange(sig_in, sig_thr)

SameValues(a, b) ==
    /\ Len(a) = Len(b)
    /\ \A i \in 1..Len(a) : RatEq(a[i], b[i])

SevenTenths == Rat(7, 10)

\* C7 as claimed: a vector with peak 0 or peak in [0.7, 1.0] is unchanged
CxC7 ==
    (sig_pc = "normalized"
         /\ (\/ RatEq(MaxAmplitude(sig_in), Zero)
             \/ /\ ~RatLt(MaxAmplitude(sig_in), SevenTenths)
                /\ ~RatGt(MaxAmplitude(sig_in), One)))
        => SameValues(sig_out, sig_in)

\* C7, amended: a vector with peak 0 or peak >= 1.0 is unchanged
ThmC7 ==
    (sig_pc = "normalized"
         /\ (\/ RatEq(MaxAmplitude(sig_in), Zero)
             \/ ~RatLt(MaxAmplitude(sig_in), One)))
        => sig_out = sig_in

WitC7 ==
    /\ sig_pc = "normalized"
    /\ Len(sig_in) >= 2
    /\ RatGt(MaxAmplitude(sig_in), One)
    /\ sig_out = sig_in

\* every sample scaled by 0.95 / p, none above 0.95, the peak at 0.95
ScaledToHeadroom(in, out) ==
    /\ Len(out) = Len(in)
    /\ \A i \in 1..Len(in) :
          /\ RatEq(out[i], RatMul(in[i], RatDiv(Headroom, MaxAmplitude(in))))
          /\ ~RatGt(RatAbs(out[i]), Headroom)
    /\ RatEq(MaxAmplitude(out), Headroom)

\* C8 as claimed: a vector with peak in (0, 0.7) or above 1.0 is scaled by
\* 0.95 / p, to magnitudes of at most 0.95 and a peak of 0.95
CxC8 ==
    (sig_pc = "normalized"
         /\ (\/ /\ RatGt(MaxAmplitude(sig_in), Zero)
                /\ RatLt(MaxAmplitude(sig_in), SevenTenths)
             \/ RatGt(MaxAmplitude(sig_in), One)))
        => ScaledToHeadroom(sig_in, sig_out)

\* C8, amended: a vector with peak in (0, 1.0) is scaled by 0.95 / p, to
\* magnitudes of at most 0.95 and a peak of 0.95; one with a peak above 1.0 is
\* left as it is
ThmC8 ==
    sig_pc = "normalized"
        => /\ (RatGt(MaxAmplitude(sig_in), Zero) /\ RatLt(MaxAmplitude(sig_in), One))
                  => ScaledToHeadroom(sig_in, sig_out)
           /\ RatGt(MaxAmplitude(sig_in), One) => sig_out = sig_in

WitC8 ==
    /\ sig_pc = "normalized"
    /\ Len(sig_in) >= 2
    /\ RatGt(MaxAmplitude(sig_in), Zero)
    /\ RatLt(MaxAmplitude(sig_in), SevenTenths)
    /\ \E i \in 1..Len(sig_in) : RatLt(RatAbs(sig_out[i]), Headroom)
    /\ \E i \in 1..Len(sig_in) : RatLt(sig_out[i], Zero)

\* C9: when a stop task returns an error the flag is false
CxC9 ==
    [][(returned' # returned /\ returned'.call = StopCall /\ returned'.result # "Ok")
          => ~is_recording']_vars

AllSucceeded ==
    <<Op("get_media_dir", TRUE), Op("write", TRUE),
      Op("get_latest_note_id", TRUE), Op("update_note_field", TRUE)>>

\* C10: a stop task returns Ok only with the file written and the field of the
\* note that get_latest_note_id named updated; a failed request makes it
\* return an error
ThmC10 ==
    returned.call = StopCall
        => /\ returned.result = "Ok"
                 => /\ returned.ops = AllSucceeded
                    /\ returned.note_id \in NoteIds
                    /\ \E f \in media_files :
                          note_fields[returned.note_id] = SoundRef(f)
           /\ (\E i \in 1..Len(returned.ops) : ~returned.ops[i].ok)
                 => returned.result # "Ok"

WitC10 ==
    /\ returned.call = StopCall
    /\ returned.result = "Ok"
    /\ returned.note_id = 2

\* task k is inside save_to_anki and returns in this step
SaveReturns(k) == tasks[k].pc = "save" /\ tasks'[k].pc = "done"

\* C11: a save_to_anki whose note lookup finds nothing returns NoNotesFound
\* after the media directory request and the write succeeded, makes no
\* update request, changes no note, and leaves the file it wrote in the
\* media directory; a failed lookup is never followed by an update request
ThmC11 ==
    [][\A k \in Tasks :
          SaveReturns(k)
              => /\ returned'.result = "NoNotesFound"
                       => /\ returned'.ops = <<Op("get_media_dir", TRUE),
                                               Op("write", TRUE),
                                               Op("get_latest_note_id", FALSE)>>
                          /\ tasks[k].filename \in media_files'
                          /\ note_fields' = note_fields
                 /\ (Len(returned'.ops) >= 3 /\ ~returned'.ops[3].ok)
                       => /\ returned'.result \in {"NoNotesFound", "NoteLookupError"}
                          /\ Len(returned'.ops) = 3]_vars

WitC11 ==
    /\ returned.call = StopCall
    /\ returned.result = "NoNotesFound"
    /\ media_files # {}
    /\ \A id \in NoteIds : note_fields[id] = <<>>

SaveOrder ==
    <<"get_media_dir", "write", "get_latest_note_id", "update_note_field">>

\* C12: the requests of a save are a prefix of get_media_dir, write,
\* get_latest_note_id, update_note_field, each made once, and every request
\* but the last one made has succeeded
ThmC12 ==
    returned.call = StopCall
        => /\ Len(returned.ops) <= Len(SaveOrder)
           /\ \A i \in 1..Len(returned.ops) :
                 /\ returned.ops[i].op = SaveOrder[i]
                 /\ i < Len(returned.ops) => returned.ops[i].ok

WitC12 ==
    /\ returned.call = StopCall
    /\ returned.ops = <<Op("get_media_dir", TRUE), Op("write", FALSE)>>
    /\ media_files = {}

\* C13: a save that returns Ok has written the file under the task's file
\* name, has set the field of the note get_latest_note_id named to
\* "[sound:" + that file name + "]", and has changed no other note
ThmC13 ==
    [][\A k \in Tasks :
          (SaveReturns(k) /\ returned'.result = "Ok")
              => /\ tasks[k].filename \in media_files'
                 /\ returned'.note_id \in NoteIds
                 /\ note_fields'[returned'.note_id]
                        = <<"[sound:", tasks[k].filename, "]">>
                 /\ \A id \in NoteIds \ {returned'.note_id} :
                        note_fields'[id] = note_fields[id]]_vars

WitC13 ==
    /\ returned.call = StopCall
    /\ returned.result = "Ok"
    /\ note_fields[2] = <<"[sound:",
                           <<"SentenceAudio", "_", <<"a", "_", "b">>, "_",
                             1700000000, ".", "Opus">>,
                           "]">>
    /\ note_fields[1] = <<>>

\* C14 as claimed: the file name is field_name _ sanitized title _ timestamp
\* . extension, the extension being the format's lowercase tag
CxC14 ==
    file_pc = "named"
        => file_name = <<FieldName, "_", SafeWindowName(file_title), "_",
                         UnixTime, ".", DisplayFmt(file_ext)>>

Illegal(title) == {i \in 1..Len(title) : title[i] \in IllegalChars}

\* C15: the sanitized title has the title's length, holds no illegal
\* character, has _ where the title had one and the title's character
\* elsewhere; sanitizing the sanitized title changes nothing
ThmC15 ==
    /\ file_pc \in {"named", "renamed"}
          => /\ Len(file_name[3]) = Len(file_title)
             /\ Illegal(file_name[3]) = {}
             /\ \A i \in 1..Len(file_title) :
                   file_name[3][i] = IF i \in Illegal(file_title) THEN "_"
                                     ELSE file_title[i]
    /\ file_pc = "renamed"
          => file_name[3] = SafeWindowName(file_title)

WitC15 ==
    /\ file_pc = "renamed"
    /\ file_title = <<".", "a">>
    /\ file_name[3] = <<"_", "a">>

\* C16: a BorderOverlay is alive exactly while the recorder is recording
CxC16 == is_recording <=> border_overlays = 1

\* C17: encode with a channel count other than 1 or 2 returns the
\* unsupported-channel-count error having called no codec function and
\* produced no output
CxC17 ==
    (enc_pc = "encoded" /\ enc_channels \notin {1, 2})
        => /\ enc_result = "UnsupportedChannelCount"
           /\ enc_work = <<>>
           /\ enc_out = <<>>

\* C18: a stop task trims the normalized snapshot, calls encode only when the
\* trimmed samples are not empty, and writes the file and calls the note
\* store only after encode returned Ok; when encode fails the task returns
\* the error with no file written and no request made
ThmC18 ==
    [][/\ \A k \in Tasks :
             /\ Snapshots(k)
                   => /\ media_files' = media_files
                      /\ note_fields' = note_fields
                      /\ tasks'[k].pc \in {"save", "done"}
                      /\ tasks'[k].pc = "save"
                            => /\ tasks'[k].encoded
                               /\ tasks'[k].trimmed # <<>>
                               /\ tasks'[k].trimmed
                                      = TrimSilence(NormalizeAudio(audio_buffer),
                                                    SilenceThreshold)
                      /\ (tasks'[k].pc = "done" /\ returned'.result = "EncodeError")
                            => /\ returned'.ops = <<>>
                               /\ TrimSilence(NormalizeAudio(audio_buffer),
                                               SilenceThreshold) # <<>>
             /\ SaveReturns(k) => (tasks[k].encoded /\ tasks[k].trimmed # <<>>)
       /\ (media_files' # media_files \/ note_fields' # note_fields)
             => \E k \in Tasks : SaveReturns(k)]_vars

WitC18 ==
    /\ returned.call = StopCall
    /\ returned.result = "EncodeError"
    /\ media_files = {}
    /\ \A id \in NoteIds : note_fields[id] = <<>>
    /\ audio_buffer # <<>>

\* C19: the calls dispatched by the triggers alternate start, stop, start,
\* ...: as many stops as starts or one fewer, and no two stops dispatched
\* within one session (without a start between them)
CxC19 ==
    /\ Len(tasks) <= start_calls
    /\ start_calls <= Len(tasks) + 1
    /\ \A j, k \in Tasks : j # k => tasks[j].session # tasks[k].session

\* C20: each combination's callback has been called once per physical press
\* of the combination
CxC20 == \A combo \in Registry : cb_calls[combo] = combo_presses[combo]

\* the note ids of a result array
ValidIds(results) == {results[i] : i \in {j \in 1..Len(results) : results[j] >= 0}}

\* C21: get_latest_note_id fails with NoNotesFound exactly on the empty
\* result array, and on an array holding note ids returns the largest of them
ThmC21 ==
    ids_pc = "done"
        => /\ ids_in = <<>> <=> (~ids_out.ok /\ ids_out.error = "NoNotesFound")
           /\ ValidIds(ids_in) # {}
                 => /\ ids_out.ok
                    /\ ids_out.id \in ValidIds(ids_in)
                    /\ \A v \in ValidIds(ids_in) : ids_out.id >= v

WitC21 ==
    /\ ids_pc = "done"
    /\ ids_in = <<1, 3, 2>>
    /\ ids_out.ok
    /\ ids_out.id = 3

\* C22 (second part): no start_recording clears the buffer while a stop task
\* is waiting to take its snapshot
CxC22 ==
    [][(hk = "clear" /\ hk' = "spawn")
          => \A k \in Tasks : tasks[k].pc # "sleep"]_vars

\* the save has written its file
Wrote(ret) == Len(ret.ops) >= 2 /\ ret.ops[2].ok

\* C23: a stop task writes no file when another stop task dispatched in the
\* same session has returned and a file has been written already
CxC23 ==
    [][\A k \in Tasks :
          (SaveReturns(k) /\ Wrote(returned') /\ media_files # {})
              => ~\E j \in Tasks \ {k} :
                     /\ tasks[j].session = tasks[k].session
                     /\ tasks[j].pc = "done"]_vars

\* thread t is inside its loop
InLoop(t) == t \in Threads /\ threads[t].pc \in {"check", "unpack"}

\* thread t has ended
Ended(t) == t \in Threads /\ threads[t].pc \in {"done", "failed"}

CxC27 ==
    [][(hk = "spawn" /\ Len(threads') = Len(threads) + 1)
          => audio_buffer = <<>>]_vars

\* thread t fails in this step
Fails(t) == threads[t].pc # "failed" /\ threads'[t].pc = "failed"

\* C28: a capture thread that fails changes neither the flag nor what any
\* call returns, and a stop task of its session whose snapshot is empty
\* returns NoAudioCaptured
ThmC28 ==
    [][/\ \A t \in Threads :
             Fails(t) => /\ is_recording' = is_recording
                         /\ returned' = returned
                         /\ hk' = hk
                         /\ tasks' = tasks
       /\ \A k \in Tasks :
             (/\ Snapshots(k)
              /\ audio_buffer = <<>>
              /\ \E t \in Threads : /\ threads[t].pc = "failed"
                                     /\ threads[t].session = tasks[k].session)
                 => returned' = StopReturn(k, "NoAudioCaptured", <<>>, 0)]_vars

WitC28 ==
    /\ returned.call = StopCall
    /\ returned.result = "NoAudioCaptured"
    /\ Len(threads) = 1
    /\ threads[1].pc = "failed"
    /\ threads[1].session = tasks[returned.id].session

\* C29: when start_recording returns an error other than AlreadyRecording
\* the flag is false
CxC29 ==
    [][(/\ returned' # returned
        /\ returned'.call = "start_recording"
        /\ returned'.result \notin {"Ok", "AlreadyRecording"})
          => ~is_recording']_vars

\* the places where a thread reads or writes *is_recording
FlagAccessPcs == {"hk_read", "start_flag", "stop_write", "cap_read"}

\* the places where a thread reads or writes audio_buffer
BufAccessPcs == {"clear", "clone", "push"}

\* C24: a thread about to read or write the flag holds the flag's mutex, a
\* thread about to read or write the buffer holds the buffer's mutex, a
\* capture thread in wait_for_event holds neither, and the flag and the
\* buffer change only in a step of the thread that holds their mutex
ThmC24 ==
    /\ [](\A p \in LockProcs :
             /\ lock_pc[p] \in FlagAccessPcs => lock_flag = p
             /\ lock_pc[p] \in BufAccessPcs => lock_buf = p
             /\ lock_pc[p] = "wait" => (lock_flag # p /\ lock_buf # p))
    /\ [][/\ lock_val'.flag # lock_val.flag
               => /\ lock_flag # NoHolder
                  /\ lock_pc[lock_flag] \in FlagAccessPcs
                  /\ lock_pc'[lock_flag] # lock_pc[lock_flag]
          /\ lock_val'.buf # lock_val.buf
               => /\ lock_buf # NoHolder
                  /\ lock_pc[lock_buf] \in BufAccessPcs
                  /\ lock_pc'[lock_buf] # lock_pc[lock_buf]]_vars

WitC24 ==
    /\ lock_val.buf > 0
    /\ lock_buf \in LockStops
    /\ lock_pc[lock_buf] = "clone"
    /\ \E c \in LockCaptures : lock_pc[c] = "wait"
    /\ \E c \in LockCaptures : lock_pc[c] = "push_lock"

\* the value of the i-th complete group of four bytes of the stream, its
\* first byte the least significant
GroupValue(i) ==
    cap_stream[4 * i - 3] + 256 * cap_stream[4 * i - 2]
        + 65536 * cap_stream[4 * i - 1] + 16777216 * cap_stream[4 * i]

\* C25: the samples pushed are the leading complete little-endian groups
\* of the bytes read, in order, and the queue holds the bytes after them;
\* once the unpack loop has ended fewer than four bytes are queued, so
\* floor(B / 4) samples have been pushed and B mod 4 bytes wait
ThmC25 ==
    /\ \A i \in 1..Len(cap_buffer) : cap_buffer[i] = GroupValue(i)
    /\ cap_queue = SubSeq(cap_stream, 4 * Len(cap_buffer) + 1, Len(cap_stream))
    /\ cap_pc \in {"wait", "check", "read", "done", "failed"}
          => /\ Len(cap_queue) < 4
             /\ Len(cap_buffer) = Len(cap_stream) \div 4
             /\ Len(cap_queue) = Len(cap_stream) % 4

WitC25 ==
    /\ cap_pc = "wait"
    /\ cap_stream = <<1, 127, 0, 0, 0, 0, 1>>
    /\ cap_buffer = <<32513>>
    /\ cap_queue = <<0, 0, 1>>

\* C30: in a successful Opus encode the first page holds the OpusHead
\* packet alone, the second page the OpusTags packet alone, and every later
\* page one audio packet, the frames in input order
ThmC30 ==
    (enc_pc = "encoded" /\ enc_format = "Opus" /\ enc_result = "Ok")
        => LET pages == Pages(enc_out)
           IN  /\ Len(pages) >= 2
               /\ Len(pages[1]) = 1 /\ pages[1][1].packet = "OpusHead"
               /\ Len(pages[2]) = 1 /\ pages[2][1].packet = "OpusTags"
               /\ \A i \in 3..Len(pages) :
                     Len(pages[i]) = 1 /\ pages[i][1].packet = "audio"
               /\ \A i, j \in 3..Len(pages) :
                     i < j => pages[i][1].frame < pages[j][1].frame

WitC30 ==
    /\ enc_pc = "encoded"
    /\ enc_format = "Opus"
    /\ enc_result = "Ok"
    /\ Len(enc_out) = 5
    /\ enc_out[3].frame = 1
    /\ enc_out[5].frame = 3

\* a successful Opus encode
OpusOk == enc_pc = "encoded" /\ enc_format = "Opus" /\ enc_result = "Ok"

\* C31: the two header packets have granule position 0 and the k-th audio
\* packet written has granule position 960 * k
ThmC31 ==
    OpusOk => /\ enc_out[1].absgp = 0
              /\ enc_out[2].absgp = 0
              /\ \A k \in 1..(Len(enc_out) - 2) : enc_out[k + 2].absgp = 960 * k
              /\ \A j, k \in 3..Len(enc_out) :
                    j < k => enc_out[j].absgp < enc_out[k].absgp

WitC31 ==
    /\ OpusOk
    /\ Len(enc_out) = 5
    /\ enc_out[5].absgp = 2880

\* the least k with k * size >= n
CeilDiv(n, size) == Min({k \in 0..n : k * size >= n})

\* C32: the Opus encoder is fed ceil(n / (960 * c)) frames of 960 * c
\* samples each, which are the input's samples in order, the last frame
\* filled up with zeros
ThmC32 ==
    (OpusOk /\ enc_channels \in {1, 2})
        => LET size == 960 * enc_channels
               n == Len(enc_frames)
           IN  /\ n = CeilDiv(enc_len, size)
               /\ \A i \in 1..n :
                     /\ enc_frames[i].count + enc_frames[i].zeros = size
                     /\ enc_frames[i].count > 0
                     /\ enc_frames[i].first
                           = IF i = 1 THEN 1
                             ELSE enc_frames[i - 1].first + enc_frames[i - 1].count
                     /\ i < n => enc_frames[i].zeros = 0
               /\ n > 0 => enc_frames[n].first + enc_frames[n].count = enc_len + 1

WitC32 ==
    /\ OpusOk
    /\ enc_len = 1921
    /\ enc_channels = 2
    /\ Len(enc_frames) = 2
    /\ enc_frames[2] = [first |-> 1921, count |-> 1, zeros |-> 1919]

\* the number of entries of the sequence that equal x
Count(seq, x) == Cardinality({i \in 1..Len(seq) : seq[i] = x})

\* the frames that produced no packet
Dropped == {i \in 1..Len(enc_frames) :
               \A k \in 1..Len(enc_out) : enc_out[k].frame # i}

\* C33: once the Opus encoder exists encode returns Ok whichever frames
\* fail; every frame is handed to encode_float, a frame that fails writes
\* no packet and does not advance the granule position, and every other
\* frame is written
ThmC33 ==
    (/\ enc_pc = "encoded" /\ enc_format = "Opus"
     /\ enc_channels \in {1, 2} /\ enc_work # <<"Encoder::new">>)
        => /\ enc_result = "Ok"
           /\ Len(enc_frames) = CeilDiv(enc_len, 960 * enc_channels)
           /\ Count(enc_work, "encode_float") = Len(enc_frames)
           /\ Count(enc_work, "write_packet")
                 = 2 + Len(enc_frames) - Cardinality(Dropped)
           /\ Len(enc_out) = 2 + Len(enc_frames) - Cardinality(Dropped)
           /\ Len(enc_out) > 2
                 => enc_out[Len(enc_out)].absgp = 960 * (Len(enc_out) - 2)

WitC33 ==
    /\ OpusOk
    /\ Len(enc_frames) = 3
    /\ Dropped = {2}
    /\ Len(enc_out) = 4
    /\ enc_out[4].frame = 3
    /\ enc_out[4].absgp = 1920

\* an MP3 encode of mono or stereo input
Mp3Call == enc_pc = "encoded" /\ enc_format = "Mp3" /\ enc_channels \in {1, 2}

\* C34: a successful MP3 encode has fed the input in order in frames of at
\* most 1152 samples per channel, then flushed once, and its output is the
\* frames' bytes in order followed by the flush's bytes; an MP3 encode that
\* fails returns no output, and has flushed at most once and after every
\* frame it fed
ThmC34 ==
    Mp3Call
        => LET n == Len(enc_frames)
               w == Len(enc_work)
           IN  /\ \A i \in 1..n :
                     /\ enc_frames[i].count \in 1..(1152 * enc_channels)
                     /\ enc_frames[i].zeros = 0
                     /\ enc_frames[i].first
                           = IF i = 1 THEN 1
                             ELSE enc_frames[i - 1].first + enc_frames[i - 1].count
               /\ Count(enc_work, "encode") = n
               /\ Count(enc_work, "flush") <= 1
               /\ \A i \in 1..w : enc_work[i] = "flush" => i = w
               /\ enc_result = "Ok"
                     => /\ n = CeilDiv(enc_len, 1152 * enc_channels)
                        /\ n > 0 => enc_frames[n].first + enc_frames[n].count
                                       = enc_len + 1
                        /\ enc_work[w] = "flush"
                        /\ Len(enc_out) = n + 1
                        /\ \A i \in 1..n : /\ enc_out[i].packet = "audio"
                                           /\ enc_out[i].frame = i
                        /\ enc_out[n + 1].packet = "flush"
               /\ enc_result # "Ok"
                     => /\ enc_result = "EncoderError"
                        /\ enc_out = <<>>

WitC34 ==
    /\ Mp3Call
    /\ enc_result = "Ok"
    /\ enc_len = 2305
    /\ enc_channels = 1
    /\ Len(enc_out) = 4
    /\ enc_frames[3] = [first |-> 2305, count |-> 1, zeros |-> 0]

\* the u32 stored little-endian in bytes at..at+3 of the packet
U32At(data, at) ==
    data[at] + 256 * data[at + 1] + 65536 * data[at + 2]
        + 16777216 * data[at + 3]

\* C35: the OpusTags packet is the 8-byte magic, the 4-byte vendor length,
\* as many vendor bytes as that length says, and the 4-byte comment count
CxC35 ==
    OpusOk => LET data == enc_out[2].data
              IN  Len(data) = 8 + 4 + U32At(data, 9) + 4

\* C36: the listener thread is never left waiting in a callback; no channel
\* ever holds more than one trigger; a callback that finds its channel
\* holding a trigger leaves the channel as it is and reports an error, and
\* one that finds it empty queues its trigger
ThmC36 ==
    /\ [](/\ chan_listener = "listening"
          /\ \A combo \in Registry :
                /\ Len(chan_q[combo]) <= 1
                /\ chan_log[combo].calls
                      = chan_log[combo].sent + chan_log[combo].errors)
    /\ [][\A combo \in Registry :
             chan_log'[combo].calls = chan_log[combo].calls + 1
                => IF chan_q[combo] # <<>>
                   THEN /\ chan_q'[combo] = chan_q[combo]
                        /\ chan_log'[combo].errors = chan_log[combo].errors + 1
                   ELSE /\ Len(chan_q'[combo]) = 1
                        /\ chan_log'[combo].errors = chan_log[combo].errors]_vars

WitC36 ==
    /\ chan_q[AudioRecordCombo] # <<>>
    /\ chan_rx[AudioRecordCombo] = "handling"
    /\ chan_log[AudioRecordCombo].errors = 1
    /\ chan_log[AudioRecordCombo].sent = 2

\* C37: at most one listener thread is ever started, and exactly one once
\* an init call has come back from start_global_listener; before any init
\* the registry stays empty, a register_hotkey call made then changes
\* nothing, and the registry only ever changes by one callback being
\* appended to one combination's list
ThmC37 ==
    /\ [](/\ mgr_listeners <= 1
          /\ ~mgr_started
                => /\ mgr_listeners = 0
                   /\ \A combo \in Registry : mgr_registry[combo] = <<>>
          /\ (mgr_started /\ \A t \in MgrThreads : mgr_pc[t].pc # "spawn")
                => mgr_listeners = 1)
    /\ [][/\ (mgr_calls' = mgr_calls + 1 /\ ~mgr_started /\ ~mgr_started')
                => (mgr_registry' = mgr_registry /\ mgr_pc' = mgr_pc)
          /\ \A t \in MgrThreads :
                (mgr_pc[t].pc = "push" /\ mgr_pc'[t].pc # "push")
                   => /\ mgr_registry'[mgr_pc[t].combo]
                            = Append(mgr_registry[mgr_pc[t].combo], mgr_pc[t].cb)
                      /\ \A combo \in Registry \ {mgr_pc[t].combo} :
                            mgr_registry'[combo] = mgr_registry[combo]
          /\ mgr_registry' # mgr_registry
                => \E t \in MgrThreads : mgr_pc[t].pc = "push"]_vars

WitC37 ==
    /\ mgr_calls = 4
    /\ mgr_listeners = 1
    /\ mgr_registry[AudioRecordCombo] = <<4>>
    /\ mgr_registry[ScreenShotCombo] = <<>>
    /\ \A t \in MgrThreads : mgr_pc[t].pc = "idle"

\* C38: an overlay is posted the destroy message at most once and its
\* thread is joined at most once; once stop or drop has come back the
\* message was posted exactly once, the window thread has left its message
\* loop and has been joined exactly once; and the drop at the end of stop
\* posts nothing and joins nothing
OvlReturned == ovl_owner \in {"stop_end", "dropped"}

ThmC38 ==
    /\ [](/\ ovl_log.posts <= 1
          /\ ovl_log.joins <= 1
          /\ OvlReturned
                => /\ ovl_thread = "exited"
                   /\ ovl_log.posts = 1
                   /\ ovl_log.joins = 1
                   /\ ovl_handle = "None")
    /\ [][(ovl_owner = "stop_end" /\ ovl_owner' # "stop_end")
             => /\ ovl_owner' = "dropped"
                /\ ovl_log' = ovl_log
                /\ ovl_queue' = ovl_queue
                /\ ovl_thread' = ovl_thread]_vars

WitC38 ==
    /\ ovl_owner = "dropped"
    /\ ovl_log = [posts |-> 1, joins |-> 1, via |-> <<"stop">>]
    /\ ovl_thread = "exited"

\* C39: once Handler::start has come back with Ok, the function returns
\* the image exactly when one is stored by the end of the wait and the
\* timeout error exactly when none is; a frame stored before the wait
\* begins is found without waiting; and the wait always ends
ShotWaited == shot_result \in {"image", "timeout"}

ThmC39 ==
    /\ [](/\ shot_result = "image" => shot_image = "Some"
          /\ shot_result = "timeout" => shot_caller = "returned")
    /\ [][/\ shot_result' # shot_result
                => \/ shot_result' = "start_error"
                   \/ shot_result' = "none" /\ shot_calls' = shot_calls + 1
                   \/ shot_result' = "image" /\ shot_image = "Some"
                   \/ shot_result' = "timeout" /\ shot_image = "None"
          /\ (shot_caller = "locked" /\ shot_image = "Some")
                => shot_caller' \in {"locked", "woke"}
          /\ (shot_caller = "waiting" /\ shot_caller' = "woke")
                => shot_image = "Some"]_vars
    /\ (shot_caller \in {"started", "locked", "waiting"})
          ~> (shot_caller = "returned")

WitC39 ==
    /\ shot_result = "image"
    /\ shot_caller = "returned"
    /\ shot_handler = "stored"

====
